---- MODULE Spec2Model ----
(***************************************************************************)
(* The smart entry parser of the commonplace-book service                  *)
(* (SmartEntryParser, src/main.py:159-323): a raw text is split into       *)
(* segments, and every segment of at least 20 characters becomes one draft *)
(* entry with a guessed title, content, type, category and source.         *)
(*                                                                         *)
(* A Python str is a sequence of characters; a character is a one-element  *)
(* string, and the characters TLA+ strings cannot hold have names (NL, DQ, *)
(* EMDASH, BULLET, TAB).  Python indexes from 0 and TLA+ from 1.           *)
(***************************************************************************)
EXTENDS Naturals, Integers, Sequences, FiniteSets, TLC

VARIABLES
    text,               \* the argument of parse_unstructured_text
    typed,              \* number of fragments the caller has typed into text
    phase,              \* "input", "running" or "done"
    segments,           \* the local list segments (main.py:184-185)
    idx,                \* position of the for loop over segments (main.py:187)
    entries,            \* the local list entries (main.py:182), then the result
    error,              \* "none", or the exception that ended the call
    clock,              \* the wall clock that datetime.now() reads, in ticks
    calls,              \* number of completed calls on this text
    passed,             \* history: the segments handed to extract_entry_from_segment
    days,               \* history: the days the running call has read off the clock
    previous,           \* history: result and days of the call before this one
    type_keywords,      \* self.type_keywords (main.py:161-167)
    category_keywords,  \* self.category_keywords (main.py:169-178)
    callers,            \* the locals of each concurrent call on smart_parser
    storage,            \* "up" or "down": whether the database can be written
    request,            \* the upload that smart_create_entries answered last
    response,           \* its answer
    analytics,          \* the rows of the table analytics, in insertion order
    parses,             \* history: number of calls of the parser by the handler
    handled,            \* number of uploads answered
    entries_table,      \* the rows of the table entries (main.py:100-114, 130-144)
    sequence,           \* the largest id the table entries has ever assigned
    assigned,           \* history: the ids that create_entry has returned
    served              \* number of create, update and delete calls answered

\* the state of the server around the parser
serverVars == <<callers, storage, request, response, analytics, parses, handled,
               entries_table, sequence, assigned, served>>

vars == <<text, typed, phase, segments, idx, entries, error, clock, calls,
          passed, days, previous, type_keywords, category_keywords,
          callers, storage, request, response, analytics, parses, handled,
          entries_table, sequence, assigned, served>>

----------------------------------------------------------------------------
(* Characters *)

NL == "\n"
TAB == "\t"
DQ == "\""
EMDASH == "emdash"
BULLET == "bullet"

\* str.strip(), str.split() and the regex class \s agree on these
IsSpace(c) == c \in {" ", NL, TAB}

\* the regex class \d
IsDigit(c) == c \in {"0", "1", "2", "3", "4", "5", "6", "7", "8", "9"}

UpperLetters == <<"A", "B", "C", "D", "E", "F", "G", "H", "I", "J", "K", "L", "M", "N", "O", "P", "Q", "R", "S", "T", "U", "V", "W", "X", "Y", "Z">>
LowerLetters == <<"a", "b", "c", "d", "e", "f", "g", "h", "i", "j", "k", "l", "m", "n", "o", "p", "q", "r", "s", "t", "u", "v", "w", "x", "y", "z">>

IsUpper(c) == \E i \in 1..Len(UpperLetters) : UpperLetters[i] = c
IsLower(c) == \E i \in 1..Len(LowerLetters) : LowerLetters[i] = c

ToLower ==
    [c \in {UpperLetters[i] : i \in 1..Len(UpperLetters)} |->
        LowerLetters[CHOOSE i \in 1..Len(UpperLetters) : UpperLetters[i] = c]]

lower_char(c) == IF c \in DOMAIN ToLower THEN ToLower[c] ELSE c

----------------------------------------------------------------------------
(* The str methods the parser calls *)

\* the first index in lo..hi that satisfies P; when there is none, the
\* index after the range
First(lo, hi, P(_)) ==
    IF lo > hi THEN lo
    ELSE CHOOSE j \in lo..(hi + 1) : j = hi + 1 \/ P(j)

\* the last index in lo..hi that satisfies P; when there is none, the
\* index before the range
Last(lo, hi, P(_)) ==
    IF lo > hi THEN lo - 1
    ELSE hi - (CHOOSE k \in 0..(hi - lo + 1) : k = hi - lo + 1 \/ P(hi - k))

\* a function on 1..n as a sequence
AsSeq(f, n) == SubSeq(f, 1, n)

\* str.lower()
str_lower(s) == AsSeq([i \in 1..Len(s) |-> lower_char(s[i])], Len(s))

\* str.isupper(): no lower-case letter and at least one upper-case letter
str_isupper(s) ==
    /\ \E i \in 1..Len(s) : IsUpper(s[i])
    /\ \A i \in 1..Len(s) : ~IsLower(s[i])

\* s.strip(chars): the characters of the set are removed at both ends
strip_chars(s, cs) ==
    SubSeq(s, First(1, Len(s), LAMBDA i : s[i] \notin cs),
              Last(1, Len(s), LAMBDA i : s[i] \notin cs))

\* s.strip()
str_strip(s) == strip_chars(s, {" ", NL, TAB})

\* t occurs in s at index i
OccursAt(s, t, i) ==
    /\ i >= 1
    /\ i + Len(t) - 1 <= Len(s)
    /\ \A j \in 1..Len(t) : s[i + j - 1] = t[j]

\* t in s
str_in(t, s) ==
    \/ t = <<>>
    \/ \E i \in 1..(Len(s) - Len(t) + 1) :
          s[i] = t[1] /\ SubSeq(s, i, i + Len(t) - 1) = t

\* s.count(c) for a single character c
str_count(s, c) == Cardinality({i \in 1..Len(s) : s[i] = c})

\* s.replace(t, ''): every non-overlapping occurrence, left to right;
\* an empty t leaves s as it is
RECURSIVE replace_from(_, _, _)
replace_from(s, t, i) ==
    LET p == First(i, Len(s) - Len(t) + 1, LAMBDA q : OccursAt(s, t, q))
    IN  IF p > Len(s) - Len(t) + 1 THEN SubSeq(s, i, Len(s))
        ELSE SubSeq(s, i, p - 1) \o replace_from(s, t, p + Len(t))

str_replace(s, t) == IF t = <<>> THEN s ELSE replace_from(s, t, 1)

\* the pieces of s between the characters of the set seps, from index i on:
\* s.split('\n') and re.split(r'[.!?]', s)
RECURSIVE split_from(_, _, _)
split_from(s, seps, i) ==
    LET e == First(i, Len(s), LAMBDA j : s[j] \in seps)
    IN  IF e > Len(s) THEN <<SubSeq(s, i, Len(s))>>
        ELSE <<SubSeq(s, i, e - 1)>> \o split_from(s, seps, e + 1)

split_on(s, seps) == split_from(s, seps, 1)

\* len(s.split()): the number of maximal runs of non-whitespace characters
split_len(s) ==
    Cardinality({i \in 1..Len(s) :
                    ~IsSpace(s[i]) /\ (i = 1 \/ IsSpace(s[i - 1]))})

\* sep.join(parts)
RECURSIVE str_join(_, _)
str_join(parts, sep) ==
    IF parts = <<>> THEN <<>>
    ELSE IF Len(parts) = 1 THEN parts[1]
    ELSE parts[1] \o sep \o str_join(Tail(parts), sep)

\* [x for x in xs if x]: the non-empty strings of a list, in order
RECURSIVE non_empty(_)
non_empty(xs) ==
    IF xs = <<>> THEN <<>>
    ELSE IF xs[1] = <<>> THEN non_empty(Tail(xs))
    ELSE <<xs[1]>> \o non_empty(Tail(xs))

\* [f(x) for x in xs] with f = str.strip
strip_all(xs) == AsSeq([k \in 1..Len(xs) |-> str_strip(xs[k])], Len(xs))

----------------------------------------------------------------------------
(* The regular expressions of the parser, each matched as re matches it *)

\* the last index of the maximal run of characters of the set cs that
\* starts at index q (q - 1 when there is no such run)
run_end(t, q, cs) == First(q, Len(t), LAMBDA i : t[i] \notin cs) - 1

\* ^ under re.MULTILINE: the start of the text or just after a newline
at_line_start(t, p) == p = 1 \/ t[p - 1] = NL

\* $ under re.MULTILINE, seen from the last matched index e: the end of
\* the text or just before a newline
at_line_end(t, e) == e = Len(t) \/ t[e + 1] = NL

\* the last index of the line that holds index p
line_end(t, p) == First(p, Len(t), LAMBDA i : t[i] = NL) - 1

\* a variant of blank_line_end for the pattern \n\s+\n, which wants at least
\* one whitespace character between the two newlines
blank_line_end_spaced(t, p) ==
    LET r == run_end(t, p + 1, {" ", NL, TAB})
        n == Last(p + 2, r, LAMBDA i : t[i] = NL)
    IN  IF n > p + 1 THEN n ELSE 0

\* the alternative \n\s*\n matched at the newline at index p: the last index
\* of the match, 0 when there is none.  \s* is greedy and gives back down to
\* the last newline of the whitespace run.
blank_line_end(t, p) ==
    LET r == run_end(t, p + 1, {" ", NL, TAB})
        n == Last(p + 1, r, LAMBDA i : t[i] = NL)
    IN  IF n > p THEN n ELSE 0

\* r'\n\s*\n|^\d+\.|^[-\u2022*]\s+' matched at index p: the last index of the
\* match, 0 when there is none
split_match_end(t, p) ==
    IF t[p] = NL THEN blank_line_end(t, p)
    ELSE IF at_line_start(t, p) /\ IsDigit(t[p]) THEN
        LET d == run_end(t, p, {"0", "1", "2", "3", "4", "5", "6", "7", "8", "9"})
        IN  IF d + 1 <= Len(t) /\ t[d + 1] = "." THEN d + 1 ELSE 0
    ELSE IF at_line_start(t, p) /\ t[p] \in {"-", BULLET, "*"} THEN
        LET r == run_end(t, p + 1, {" ", NL, TAB})
        IN  IF r >= p + 1 THEN r ELSE 0
    ELSE 0

\* re.split(pattern, text, flags=re.MULTILINE): the pieces between the
\* non-overlapping matches, found left to right from index p
RECURSIVE re_split_from(_, _)
re_split_from(t, p) ==
    LET m == First(p, Len(t), LAMBDA q : split_match_end(t, q) > 0)
    IN  IF m > Len(t) THEN <<SubSeq(t, p, Len(t))>>
        ELSE <<SubSeq(t, p, m - 1)>> \o re_split_from(t, split_match_end(t, m) + 1)

re_split(t) == re_split_from(t, 1)

\* re.search(r'"([^"]+)"', line): group 1 of the leftmost match, as a list
\* of no or one string
search_quoted(line) ==
    LET p == First(1, Len(line), LAMBDA i :
                    /\ line[i] = DQ
                    /\ i + 1 <= Len(line)
                    /\ line[i + 1] # DQ
                    /\ \E q \in (i + 2)..Len(line) : line[q] = DQ)
    IN  IF p > Len(line) THEN <<>>
        ELSE <<SubSeq(line, p + 1,
                      First(p + 2, Len(line), LAMBDA i : line[i] = DQ) - 1)>>

\* re.search(kw + r'[:\s]+([^\n]+)', t, re.IGNORECASE | re.MULTILINE) for
\* kw one of source, from, via: group 1 of the leftmost match.  [:\s]+ is
\* greedy; when its run reaches the end of the text it gives characters
\* back until the group can start on a character that is no newline.
capture_start(t, a) ==
    LET r == run_end(t, a, {":", " ", NL, TAB})
    IN  IF r < a THEN 0
        ELSE IF r < Len(t) THEN r + 1
        ELSE LET back == Last(a + 1, r, LAMBDA j : t[j] # NL)
             IN  IF back > a THEN back ELSE 0

search_keyword(t, kw) ==
    LET low == str_lower(t)
        last == Len(t) - Len(kw) + 1
        p == First(1, last, LAMBDA i :
                    OccursAt(low, kw, i) /\ capture_start(t, i + Len(kw)) > 0)
    IN  IF p > last THEN <<>>
        ELSE LET c == capture_start(t, p + Len(kw))
             IN  <<SubSeq(t, c, line_end(t, c))>>

\* re.search(r'\u2014([^\u2014\n]+)$', t, re.MULTILINE)
search_emdash(t) ==
    LET p == First(1, Len(t), LAMBDA i :
                    /\ t[i] = EMDASH
                    /\ i + 1 <= Len(t)
                    /\ t[i + 1] # NL
                    /\ \A j \in (i + 1)..line_end(t, i + 1) : t[j] # EMDASH)
    IN  IF p > Len(t) THEN <<>>
        ELSE <<SubSeq(t, p + 1, line_end(t, p + 1))>>

\* re.search(r'\(([^)]+)\)$', t, re.MULTILINE): [^)] also matches newlines
\* a variant of search_paren for the pattern \(([^)]+)\) without the anchor $
search_paren_unanchored(t) ==
    LET close(i) == First(i + 1, Len(t), LAMBDA q : t[q] = ")")
        p == First(1, Len(t), LAMBDA i :
                    /\ t[i] = "("
                    /\ close(i) <= Len(t)
                    /\ close(i) > i + 1)
    IN  IF p > Len(t) THEN <<>>
        ELSE <<SubSeq(t, p + 1, close(p) - 1)>>

search_paren(t) ==
    LET close(i) == First(i + 1, Len(t), LAMBDA q : t[q] = ")")
        p == First(1, Len(t), LAMBDA i :
                    /\ t[i] = "("
                    /\ close(i) <= Len(t)
                    /\ close(i) > i + 1
                    /\ at_line_end(t, close(i)))
    IN  IF p > Len(t) THEN <<>>
        ELSE <<SubSeq(t, p + 1, close(p) - 1)>>

----------------------------------------------------------------------------
(* SmartEntryParser *)

SmartImport == <<"S", "m", "a", "r", "t", " ", "I", "m", "p", "o", "r", "t">>

\* __init__: the two keyword tables, as lists in insertion order
InitTypeKeywords == <<
    [key |-> "word",    keywords |-> <<<<"w", "o", "r", "d">>, <<"t", "e", "r", "m">>, <<"v", "o", "c", "a", "b", "u", "l", "a", "r", "y">>, <<"d", "e", "f", "i", "n", "i", "t", "i", "o", "n">>>>],
    [key |-> "phrase",  keywords |-> <<<<"p", "h", "r", "a", "s", "e">>, <<"s", "a", "y", "i", "n", "g">>, <<"e", "x", "p", "r", "e", "s", "s", "i", "o", "n">>, <<"q", "u", "o", "t", "e">>>>],
    [key |-> "author",  keywords |-> <<<<"a", "u", "t", "h", "o", "r">>, <<"w", "r", "i", "t", "e", "r">>, <<"s", "a", "i", "d">>, <<"a", "r", "g", "u", "e", "s">>, <<"w", "r", "i", "t", "e", "s">>>>],
    [key |-> "concept", keywords |-> <<<<"c", "o", "n", "c", "e", "p", "t">>, <<"i", "d", "e", "a">>, <<"t", "h", "e", "o", "r", "y">>, <<"f", "r", "a", "m", "e", "w", "o", "r", "k">>, <<"a", "p", "p", "r", "o", "a", "c", "h">>>>],
    [key |-> "excerpt", keywords |-> <<<<"e", "x", "c", "e", "r", "p", "t">>, <<"p", "a", "s", "s", "a", "g", "e">>, <<"t", "e", "x", "t">>, <<"r", "e", "a", "d", "i", "n", "g">>>>] >>

\* a variant of the category table with a ninth category
NineCategoryKeywords == <<
    [key |-> "Literary Terms",         keywords |-> <<<<"l", "i", "t", "e", "r", "a", "r", "y">>, <<"g", "e", "n", "r", "e">>, <<"n", "a", "r", "r", "a", "t", "i", "v", "e">>, <<"w", "r", "i", "t", "i", "n", "g">>, <<"e", "s", "s", "a", "y">>>>],
    [key |-> "Philosophical Thinkers", keywords |-> <<<<"p", "h", "i", "l", "o", "s", "o", "p", "h", "y">>, <<"p", "h", "i", "l", "o", "s", "o", "p", "h", "i", "c", "a", "l">>, <<"t", "h", "i", "n", "k", "e", "r">>, <<"a", "r", "g", "u", "e", "s">>>>],
    [key |-> "Cultural Critique",      keywords |-> <<<<"c", "u", "l", "t", "u", "r", "e">>, <<"s", "o", "c", "i", "e", "t", "y">>, <<"c", "r", "i", "t", "i", "q", "u", "e">>, <<"a", "n", "a", "l", "y", "s", "i", "s">>>>],
    [key |-> "Writing Process",        keywords |-> <<<<"w", "r", "i", "t", "i", "n", "g">>, <<"p", "r", "o", "c", "e", "s", "s">>, <<"e", "d", "i", "t", "i", "n", "g">>, <<"d", "r", "a", "f", "t">>>>],
    [key |-> "Political Rhetoric",     keywords |-> <<<<"p", "o", "l", "i", "t", "i", "c", "a", "l">>, <<"p", "o", "l", "i", "t", "i", "c", "s">>, <<"r", "h", "e", "t", "o", "r", "i", "c">>, <<"s", "p", "e", "e", "c", "h">>>>],
    [key |-> "Legal Language",         keywords |-> <<<<"l", "e", "g", "a", "l">>, <<"l", "a", "w">>, <<"c", "o", "u", "r", "t">>, <<"d", "o", "c", "t", "r", "i", "n", "e">>>>],
    [key |-> "Translation Philosophy", keywords |-> <<<<"t", "r", "a", "n", "s", "l", "a", "t", "i", "o", "n">>, <<"t", "r", "a", "n", "s", "l", "a", "t", "e">>, <<"l", "a", "n", "g", "u", "a", "g", "e">>>>],
    [key |-> "Material Metaphor",      keywords |-> <<<<"m", "e", "t", "a", "p", "h", "o", "r">>, <<"s", "y", "m", "b", "o", "l", "i", "s", "m">>, <<"r", "e", "p", "r", "e", "s", "e", "n", "t", "s">>>>],
    [key |-> "Animal Fables",          keywords |-> <<<<"f", "o", "x">>, <<"f", "a", "b", "l", "e">>>>] >>

InitCategoryKeywords == <<
    [key |-> "Literary Terms",         keywords |-> <<<<"l", "i", "t", "e", "r", "a", "r", "y">>, <<"g", "e", "n", "r", "e">>, <<"n", "a", "r", "r", "a", "t", "i", "v", "e">>, <<"w", "r", "i", "t", "i", "n", "g">>, <<"e", "s", "s", "a", "y">>>>],
    [key |-> "Philosophical Thinkers", keywords |-> <<<<"p", "h", "i", "l", "o", "s", "o", "p", "h", "y">>, <<"p", "h", "i", "l", "o", "s", "o", "p", "h", "i", "c", "a", "l">>, <<"t", "h", "i", "n", "k", "e", "r">>, <<"a", "r", "g", "u", "e", "s">>>>],
    [key |-> "Cultural Critique",      keywords |-> <<<<"c", "u", "l", "t", "u", "r", "e">>, <<"s", "o", "c", "i", "e", "t", "y">>, <<"c", "r", "i", "t", "i", "q", "u", "e">>, <<"a", "n", "a", "l", "y", "s", "i", "s">>>>],
    [key |-> "Writing Process",        keywords |-> <<<<"w", "r", "i", "t", "i", "n", "g">>, <<"p", "r", "o", "c", "e", "s", "s">>, <<"e", "d", "i", "t", "i", "n", "g">>, <<"d", "r", "a", "f", "t">>>>],
    [key |-> "Political Rhetoric",     keywords |-> <<<<"p", "o", "l", "i", "t", "i", "c", "a", "l">>, <<"p", "o", "l", "i", "t", "i", "c", "s">>, <<"r", "h", "e", "t", "o", "r", "i", "c">>, <<"s", "p", "e", "e", "c", "h">>>>],
    [key |-> "Legal Language",         keywords |-> <<<<"l", "e", "g", "a", "l">>, <<"l", "a", "w">>, <<"c", "o", "u", "r", "t">>, <<"d", "o", "c", "t", "r", "i", "n", "e">>>>],
    [key |-> "Translation Philosophy", keywords |-> <<<<"t", "r", "a", "n", "s", "l", "a", "t", "i", "o", "n">>, <<"t", "r", "a", "n", "s", "l", "a", "t", "e">>, <<"l", "a", "n", "g", "u", "a", "g", "e">>>>],
    [key |-> "Material Metaphor",      keywords |-> <<<<"m", "e", "t", "a", "p", "h", "o", "r">>, <<"s", "y", "m", "b", "o", "l", "i", "s", "m">>, <<"r", "e", "p", "r", "e", "s", "e", "n", "t", "s">>>>] >>

\* sum(1 for keyword in keywords if keyword in text_lower)
keyword_score(keywords, text_lower) ==
    Cardinality({k \in 1..Len(keywords) : str_in(keywords[k], text_lower)})

\* max(scores, key=scores.get) over a dict with the keys of table, in
\* insertion order: the first key whose score is maximal
first_max(table, score) ==
    table[First(1, Len(table), LAMBDA i :
                  \A j \in 1..Len(table) : score[j] <= score[i])].key

\* extract_title; lines[0] raises IndexError on an empty list
extract_title_error(lines) == IF lines = <<>> THEN "IndexError" ELSE "none"

TitleQuoted(first_line) == search_quoted(first_line)[1]

TitleClause(first_line) == str_strip(split_on(first_line, {".", "!", "?"})[1])

\* a variant of TitleFallback that does not cut the line at 50 characters
TitleFallback_uncut(first_line) == str_strip(first_line)

\* first_line[:50].strip()
TitleFallback(first_line) ==
    str_strip(SubSeq(first_line, 1, IF Len(first_line) < 50 THEN Len(first_line) ELSE 50))

\* a variant of extract_title that tests the upper-case rule before the
\* quoted rule
extract_title_caps_first(lines) ==
    LET first_line == lines[1]
    IN  IF str_isupper(first_line) /\ Len(first_line) < 100 THEN first_line
        ELSE IF search_quoted(first_line) # <<>> THEN TitleQuoted(first_line)
        ELSE IF split_len(first_line) <= 5 /\ Len(first_line) < 50 THEN first_line
        ELSE IF Len(split_on(first_line, {".", "!", "?"})[1]) < 100
             THEN TitleClause(first_line)
        ELSE TitleFallback(first_line)

extract_title(lines) ==
    LET first_line == lines[1]
    IN  IF search_quoted(first_line) # <<>> THEN TitleQuoted(first_line)
        ELSE IF str_isupper(first_line) /\ Len(first_line) < 100 THEN first_line
        ELSE IF split_len(first_line) <= 5 /\ Len(first_line) < 50 THEN first_line
        ELSE IF Len(split_on(first_line, {".", "!", "?"})[1]) < 100
             THEN TitleClause(first_line)
        ELSE TitleFallback(first_line)

\* a variant of remove_title for line.replace(title, '', 1), which removes
\* the first occurrence only
remove_title_once(line, title) ==
    LET p == First(1, Len(line) - Len(title) + 1, LAMBDA q : OccursAt(line, title, q))
    IN  strip_chars(IF title = <<>> \/ p > Len(line) - Len(title) + 1 THEN line
                    ELSE SubSeq(line, 1, p - 1) \o SubSeq(line, p + Len(title), Len(line)),
                    {" ", "-", ":"})

\* a variant of remove_title for line.replace(title, '').lstrip(' -:'),
\* which strips at the start only
remove_title_leading(line, title) ==
    LET rest == str_replace(line, title)
    IN  SubSeq(rest, First(1, Len(rest), LAMBDA i : rest[i] \notin {" ", "-", ":"}),
               Len(rest))

\* line.replace(title, '').strip(' -:')
remove_title(line, title) == strip_chars(str_replace(line, title), {" ", "-", ":"})

\* the loop of extract_content from line i on
RECURSIVE content_lines_from(_, _, _, _)
content_lines_from(lines, title, i, title_found) ==
    IF i > Len(lines) THEN <<>>
    ELSE IF ~title_found /\ str_in(title, lines[i]) THEN
        LET remaining == remove_title(lines[i], title)
        IN  (IF remaining # <<>> THEN <<remaining>> ELSE <<>>)
                \o content_lines_from(lines, title, i + 1, TRUE)
    ELSE IF title_found \/ ~str_in(title, lines[i]) THEN
        <<lines[i]>> \o content_lines_from(lines, title, i + 1, title_found)
    ELSE content_lines_from(lines, title, i + 1, title_found)

\* a variant of extract_content whose fallback joins every line
extract_content_fallback_all(lines, title) ==
    LET kept == content_lines_from(lines, title, 1, FALSE)
        content_lines == IF kept = <<>> /\ lines # <<>> THEN lines ELSE kept
    IN  str_strip(str_join(content_lines, <<" ">>))

extract_content(lines, title) ==
    LET kept == content_lines_from(lines, title, 1, FALSE)
        content_lines == IF kept = <<>> /\ lines # <<>> THEN Tail(lines) ELSE kept
    IN  str_strip(str_join(content_lines, <<" ">>))

\* a variant of quote_bonus that wants three quote characters
quote_bonus_three(t) == IF str_count(t, DQ) >= 3 THEN 2 ELSE 0

\* if '"' in text and text.count('"') >= 2: the 2 points added to 'excerpt'
quote_bonus(t) == IF str_count(t, DQ) >= 2 THEN 2 ELSE 0

\* determine_type
type_scores(t) ==
    LET text_lower == str_lower(t)
        base == AsSeq([i \in 1..Len(type_keywords) |->
                          keyword_score(type_keywords[i].keywords, text_lower)],
                      Len(type_keywords))
        quotes == quote_bonus(t)
        means == IF \/ str_in(<<"d", "e", "f", "i", "n", "i", "t", "i", "o", "n">>, text_lower)
                    \/ str_in(<<"m", "e", "a", "n", "s">>, text_lower)
                    \/ str_in(<<"r", "e", "f", "e", "r", "s", " ", "t", "o">>, text_lower)
                 THEN 2 ELSE 0
        long == IF split_len(t) > 50 THEN 1 ELSE 0
    IN  AsSeq([i \in 1..Len(type_keywords) |->
                  base[i]
                  + (IF type_keywords[i].key = "excerpt" THEN quotes + long ELSE 0)
                  + (IF type_keywords[i].key = "word" THEN means ELSE 0)],
              Len(type_keywords))

\* a variant of determine_type in which the last key of maximal score wins
determine_type_last_max(t) ==
    IF type_keywords # <<>>
    THEN type_keywords[Last(1, Len(type_keywords), LAMBDA i :
             \A j \in 1..Len(type_keywords) : type_scores(t)[j] <= type_scores(t)[i])].key
    ELSE "concept"

determine_type(t) ==
    IF type_keywords # <<>> THEN first_max(type_keywords, type_scores(t))
    ELSE "concept"

\* determine_category
category_scores(t) ==
    LET text_lower == str_lower(t)
    IN  AsSeq([i \in 1..Len(category_keywords) |->
                  keyword_score(category_keywords[i].keywords, text_lower)],
              Len(category_keywords))

\* a variant of determine_category without the test max_score > 0
determine_category_always_max(t) == first_max(category_keywords, category_scores(t))

determine_category(t) ==
    LET scores == category_scores(t)
    IN  IF /\ category_keywords # <<>>
           /\ \E i \in 1..Len(scores) : scores[i] > 0
        THEN first_max(category_keywords, scores)
        ELSE "General"

\* a variant of source_matches that tries the five patterns in the reverse
\* order
source_matches_reversed(t) ==
    search_paren(t) \o search_emdash(t) \o search_keyword(t, <<"v", "i", "a">>)
        \o search_keyword(t, <<"f", "r", "o", "m">>) \o search_keyword(t, <<"s", "o", "u", "r", "c", "e">>)

\* extract_source: the five patterns in order, the first that matches
source_matches(t) ==
    search_keyword(t, <<"s", "o", "u", "r", "c", "e">>) \o search_keyword(t, <<"f", "r", "o", "m">>)
        \o search_keyword(t, <<"v", "i", "a">>) \o search_emdash(t) \o search_paren(t)

extract_source(t) ==
    IF source_matches(t) # <<>> THEN str_strip(source_matches(t)[1])
    ELSE SmartImport

\* datetime.now().strftime("%Y-%m-%d"): the day of a clock reading, written
\* out; the time of day is left out
TicksPerDay == 2
DayOf(now) == now \div TicksPerDay
Digits == <<"0", "1", "2", "3", "4", "5", "6", "7", "8", "9">>

\* a variant of strftime that renders the time of day too
strftime_time(now) == <<"d", "a", "y", " ">> \o <<Digits[DayOf(now) + 1]>>
                          \o <<":">> \o <<Digits[(now % TicksPerDay) + 1]>>

\* datetime.strftime("%Y-%m-%d"): the day, and nothing of the time of day
strftime(now) == <<"d", "a", "y", " ">> \o <<Digits[DayOf(now) + 1]>>

\* the lines of a segment: [line.strip() for line in segment.split('\n') if line.strip()]
segment_lines(segment) == non_empty(strip_all(split_on(segment, {NL})))

\* extract_entry_from_segment, with the two readings of datetime.now():
\* a list of no entry (None) or one
extract_entry_from_segment(segment, now1, now2) ==
    LET lines == segment_lines(segment)
        title == extract_title(lines)
    IN  IF lines = <<>> THEN <<>>
        ELSE << [type         |-> determine_type(segment),
                 title        |-> title,
                 content      |-> extract_content(lines, title),
                 source       |-> extract_source(segment),
                 whyItStuck   |-> <<>>,
                 extendedNote |-> <<>>,
                 category     |-> determine_category(segment),
                 tags         |-> <<>>,
                 batch        |-> SmartImport \o <<" ">> \o strftime(now1),
                 dateAdded    |-> strftime(now2)] >>

\* the exception extract_entry_from_segment ends with, "none" when it returns
extract_entry_error(segment) ==
    IF segment_lines(segment) = <<>> THEN "none"
    ELSE extract_title_error(segment_lines(segment))

\* a variant of split_segments for [s for s in segments if s], which keeps
\* the whitespace at the ends of the pieces
split_segments_untrimmed(t) == non_empty(re_split(t))

\* segments = [s.strip() for s in segments if s.strip()]
split_segments(t) == non_empty(strip_all(re_split(t)))

\* if len(segment) < 20: continue
MinSegmentLen == 20

\* a variant of too_short that lets a segment of 19 characters through
too_short_by_one(segment) == Len(segment) + 1 < MinSegmentLen

\* a variant of too_short that skips no segment
too_short_never(segment) == FALSE

too_short(segment) == Len(segment) < MinSegmentLen


\* parse_unstructured_text as a function of the text and the instant of the
\* call: the entries of the segments from the i-th on
RECURSIVE entries_from(_, _, _)
entries_from(segs, i, now) ==
    IF i > Len(segs) THEN <<>>
    ELSE (IF too_short(segs[i]) THEN <<>>
          ELSE extract_entry_from_segment(segs[i], now, now))
             \o entries_from(segs, i + 1, now)

parse_unstructured_text(t, now) == entries_from(split_segments(t), 1, now)
----------------------------------------------------------------------------
(* The inputs: the caller types a text as a sequence of fragments *)

MaxFrags == 3
MaxRepeatFrags == 3
MaxClock == 3
MaxCalls == 2

Fragments == {
    <<NL>>,
    <<NL, NL>>,
    <<DQ>>,
    <<".">>,
    <<"-", " ">>,
    <<"1", "2", ".", " ", "a", " ", "s", "h", "o", "r", "t", " ", "l", "i", "s", "t", " ", "i", "t", "e", "m">>,
    <<"A", " ", "B", " ", "C", " ", "D", " ", "E", " ", "F", " ", "G", " ", "H", " ", "I", " ", "J", " ", "K", " ", "L", " ", "M", " ", "N", " ", "O", " ", "P", " ", "Q", " ", "R", " ", "S", " ", "T", " ", "U", " ", "V", " ", "W", " ", "X", " ", "Y", " ", "Z", " ", "A", " ", "B", " ", "C", " ", "D", " ", "E", " ", "F", " ", "G", " ", "H", " ", "I", " ", "J", " ", "K", " ", "L", " ", "M", " ", "N", " ", "O", " ", "P", " ", "Q", " ", "R", " ", "S", " ", "T", " ", "U", " ", "V", " ", "W", " ", "X", " ", "Y", " ", "Z", " ">>,
    <<"t", "h", "e", " ", "q", "u", "i", "c", "k", " ", "b", "r", "o", "w", "n", " ", "f", "o", "x", " ", "j", "u", "m", "p", "s">>,
    <<" ", "m", "e", "a", "n", "s", " ", "s", "e", "e", "m", "i", "n", "g", " ", "r", "e", "a", "l">>,
    <<" ", "f", "r", "o", "m", " ", "t", "h", "e", " ", "o", "l", "d", " ", "t", "e", "x", "t">>,
    <<DQ, "L", "o", "v", "e", DQ, " ", "i", "s", " ", "L", "o", "v", "e", " ">>,
    <<" ", EMDASH, " ">>,
    <<"P", "l", "a", "t", "o", " ", "(", "R", "e", "p", "u", "b", "l", "i", "c", ")">>,
    <<" ", "s", "a", "i", "d", " ", "t", "h", "e", " ", "a", "u", "t", "h", "o", "r">> }

\* the fragments of the texts that are parsed repeatedly
RepeatFragments == {
    <<NL, NL>>,
    <<DQ>>,
    <<"t", "h", "e", " ", "q", "u", "i", "c", "k", " ", "b", "r", "o", "w", "n", " ", "f", "o", "x", " ", "j", "u", "m", "p", "s">>,
    <<" ", "m", "e", "a", "n", "s", " ", "s", "e", "e", "m", "i", "n", "g", " ", "r", "e", "a", "l">>,
    <<" ", "f", "r", "o", "m", " ", "t", "h", "e", " ", "o", "l", "d", " ", "t", "e", "x", "t">>,
    <<"P", "l", "a", "t", "o", " ", "(", "R", "e", "p", "u", "b", "l", "i", "c", ")">> }

\* the texts of exactly n of these fragments
RECURSIVE TextsOf(_)
TextsOf(n) ==
    IF n = 0 THEN {<<>>}
    ELSE {t \o f : t \in TextsOf(n - 1), f \in RepeatFragments}

----------------------------------------------------------------------------
(* The state machine *)

\* no call is running on smart_parser and no upload has been answered
NumCallers == 2

Callers == 1..NumCallers

Idle == [text |-> <<>>, phase |-> "idle", segments |-> <<>>, idx |-> 0, entries |-> <<>>]

NoRequest == [filename |-> <<>>, content |-> <<>>]

NoResponse == [status |-> 0]

InitServer ==
    /\ callers = [c \in Callers |-> Idle]
    /\ storage = "up"
    /\ request = NoRequest
    /\ response = NoResponse
    /\ analytics = <<>>
    /\ parses = 0
    /\ handled = 0
    /\ entries_table = {}
    /\ sequence = 0
    /\ assigned = {}
    /\ served = 0

Init ==
    /\ text = <<>>
    /\ typed = 0
    /\ phase = "input"
    /\ segments = <<>>
    /\ idx = 0
    /\ entries = <<>>
    /\ error = "none"
    /\ clock = 0
    /\ calls = 0
    /\ passed = <<>>
    /\ days = {}
    /\ previous = [result |-> <<>>, days |-> {}]
    /\ type_keywords = InitTypeKeywords
    /\ category_keywords = InitCategoryKeywords
    /\ InitServer

\* the caller assembles the text
Type(f) ==
    /\ phase = "input"
    /\ typed < MaxFrags
    /\ text' = text \o f
    /\ typed' = typed + 1
    /\ UNCHANGED <<phase, segments, idx, entries, error, clock, calls, passed,
                   days, previous, type_keywords, category_keywords>>
    /\ UNCHANGED serverVars

\* parse_unstructured_text up to its loop (main.py:182-185)
StartCall ==
    /\ phase' = "running"
    /\ entries' = <<>>
    /\ segments' = split_segments(text)
    /\ idx' = 1
    /\ error' = "none"
    /\ passed' = <<>>
    /\ days' = {}
    /\ UNCHANGED <<text, typed, clock, calls, type_keywords, category_keywords>>
    /\ UNCHANGED serverVars

\* smart_parser.parse_unstructured_text(text) is called
Call ==
    /\ phase = "input"
    /\ StartCall
    /\ UNCHANGED previous

\* it is called once more with the same text
Recall ==
    /\ phase = "done"
    /\ calls < MaxCalls
    /\ previous' = [result |-> entries, days |-> days]
    /\ StartCall

\* a variant of Step for entries.insert(0, entry): the new entry is put in
\* front of the list
Step_insert_front(adv) ==
    /\ phase = "running"
    /\ idx <= Len(segments)
    /\ clock + adv <= MaxClock
    /\ LET segment == segments[idx]
       IN  IF too_short(segment)
           THEN /\ idx' = idx + 1
                /\ UNCHANGED <<phase, entries, error, clock, passed, days>>
           ELSE /\ passed' = Append(passed, segment)
                /\ entries' = extract_entry_from_segment(segment, clock, clock + adv)
                                  \o entries
                /\ clock' = clock + adv
                /\ days' = days \cup {DayOf(clock), DayOf(clock + adv)}
                /\ idx' = idx + 1
                /\ UNCHANGED <<phase, error>>
    /\ UNCHANGED <<text, typed, segments, calls, previous, type_keywords,
                   category_keywords>>
    /\ UNCHANGED serverVars

\* one iteration of the loop (main.py:187-192); adv ticks pass between the
\* two readings of the clock in extract_entry_from_segment
Step(adv) ==
    /\ phase = "running"
    /\ idx <= Len(segments)
    /\ clock + adv <= MaxClock
    /\ LET segment == segments[idx]
       IN  IF too_short(segment)
           THEN /\ idx' = idx + 1
                /\ UNCHANGED <<phase, entries, error, clock, passed, days>>
           ELSE /\ passed' = Append(passed, segment)
                /\ IF extract_entry_error(segment) # "none"
                   THEN /\ error' = extract_entry_error(segment)
                        /\ phase' = "done"
                        /\ UNCHANGED <<idx, entries, clock, days>>
                   ELSE /\ entries' = entries \o
                              extract_entry_from_segment(segment, clock, clock + adv)
                        /\ clock' = clock + adv
                        /\ days' = days \cup {DayOf(clock), DayOf(clock + adv)}
                        /\ idx' = idx + 1
                        /\ UNCHANGED <<phase, error>>
    /\ UNCHANGED <<text, typed, segments, calls, previous, type_keywords,
                   category_keywords>>
    /\ UNCHANGED serverVars

\* return entries (main.py:193)
Return ==
    /\ phase = "running"
    /\ idx > Len(segments)
    /\ phase' = "done"
    /\ calls' = calls + 1
    /\ UNCHANGED <<text, typed, segments, idx, entries, error, clock, passed,
                   days, previous, type_keywords, category_keywords>>
    /\ UNCHANGED serverVars

\* time passes
Tick ==
    /\ clock < MaxClock
    /\ clock' = clock + 1
    /\ UNCHANGED <<text, typed, phase, segments, idx, entries, error, calls,
                   passed, days, previous, type_keywords, category_keywords>>
    /\ UNCHANGED serverVars

\* one call on every text of up to MaxFrags fragments, at one instant
Next ==
    \/ \E f \in Fragments : Type(f)
    \/ Call
    \/ Step(0)
    \/ Return

Spec == Init /\ [][Next]_vars

\* repeated calls on a text of MaxRepeatFrags fragments while time passes
InitRepeat ==
    /\ text \in TextsOf(MaxRepeatFrags)
    /\ typed = MaxRepeatFrags
    /\ phase = "input"
    /\ segments = <<>>
    /\ idx = 0
    /\ entries = <<>>
    /\ error = "none"
    /\ clock = 0
    /\ calls = 0
    /\ passed = <<>>
    /\ days = {}
    /\ previous = [result |-> <<>>, days |-> {}]
    /\ type_keywords = InitTypeKeywords
    /\ category_keywords = InitCategoryKeywords
    /\ InitServer

NextRepeat ==
    \/ Call
    \/ Recall
    \/ \E adv \in 0..1 : Step(adv)
    \/ Return
    \/ Tick

SpecRepeat == InitRepeat /\ [][NextRepeat]_vars

----------------------------------------------------------------------------
(* One call on a text that is handed over whole *)

\* the texts of exactly n fragments of the set frags
RECURSIVE TextsFrom(_, _)
TextsFrom(frags, n) ==
    IF n = 0 THEN {<<>>}
    ELSE {t \o f : t \in TextsFrom(frags, n - 1), f \in frags}

\* the state before the call parse_unstructured_text(t)
InitWith(t) ==
    /\ text = t
    /\ typed = 0
    /\ phase = "input"
    /\ segments = <<>>
    /\ idx = 0
    /\ entries = <<>>
    /\ error = "none"
    /\ clock = 0
    /\ calls = 0
    /\ passed = <<>>
    /\ days = {}
    /\ previous = [result |-> <<>>, days |-> {}]
    /\ type_keywords = InitTypeKeywords
    /\ category_keywords = InitCategoryKeywords
    /\ InitServer

\* one call at one instant
NextOneCall ==
    \/ Call
    \/ Step(0)
    \/ Return

\* texts about the topics of the category table
MaxCategoryFrags == 3

CategoryFragments == {
    <<NL, NL>>,
    <<"t", "h", "e", " ", "q", "u", "i", "c", "k", " ", "b", "r", "o", "w", "n", " ", "f", "o", "x", " ", "j", "u", "m", "p", "s">>,
    <<" ", "n", "o", "t", "e", "s", " ", "o", "n", " ", "W", "R", "I", "T", "I", "N", "G", " ", "a", " ", "d", "r", "a", "f", "t">>,
    <<" ", "i", "n", " ", "a", " ", "l", "i", "t", "e", "r", "a", "r", "y", " ", "g", "e", "n", "r", "e", " ", "e", "s", "s", "a", "y">>,
    <<" ", "a", " ", "f", "l", "a", "w", " ", "o", "f", " ", "s", "p", "e", "e", "c", "h">>,
    <<" ", "w", "r", "i", "t", "i", "n", "g">> }

InitCategory == \E t \in TextsFrom(CategoryFragments, MaxCategoryFrags) : InitWith(t)

SpecCategory == InitCategory /\ [][NextOneCall]_vars

\* texts of paragraphs, list items and the delimiters between them
MaxSplitFrags == 4

SplitFragments == {
    <<NL>>,
    <<NL, NL>>,
    <<" ">>,
    <<"-", " ">>,
    <<"1", "2", ".">>,
    <<"t", "h", "e", " ", "q", "u", "i", "c", "k", " ", "b", "r", "o", "w", "n", " ", "f", "o", "x", " ", "j", "u", "m", "p", "s">>,
    <<"a", " ", "s", "e", "c", "o", "n", "d", " ", "p", "a", "r", "a", "g", "r", "a", "p", "h", " ", "o", "f", " ", "t", "e", "x", "t">>,
    <<"a", " ", "s", "h", "o", "r", "t", " ", "o", "n", "e">> }

InitSplit == \E t \in TextsFrom(SplitFragments, MaxSplitFrags) : InitWith(t)

SpecSplit == InitSplit /\ [][NextOneCall]_vars

\* first lines for the five rules of extract_title: quoted text, upper-case
\* text, short lines, clauses that end with punctuation, and lines of 100
\* characters and more
MaxTitleFrags == 3

TitleFragments == {
    <<NL>>,
    <<DQ, DQ>>,
    <<"!">>,
    <<DQ, "L", "O", "V", "E", DQ, " ">>,
    <<"I", "S", " ", "L", "O", "V", "E", " ">>,
    <<" ", "m", "e", "a", "n", "s", " ", "s", "e", "e", "m", "i", "n", "g", " ", "r", "e", "a", "l", ".", " ">>,
    <<"a", " ", "l", "o", "n", "g", " ", "r", "u", "n", " ", "o", "f", " ", "w", "o", "r", "d", "s", " ", "t", "h", "a", "t", " ", "g", "o", "e", "s", " ", "o", "n", " ", "a", "n", "d", " ", "o", "n", " ", "a", "n", "d", " ", "o", "n", " ", "a", "n", "d", " ">>,
    <<"A", " ", "L", "O", "N", "G", " ", "R", "U", "N", " ", "O", "F", " ", "W", "O", "R", "D", "S", " ", "T", "H", "A", "T", " ", "G", "O", "E", "S", " ", "O", "N", " ", "A", "N", "D", " ", "O", "N", " ", "A", "N", "D", " ", "O", "N", " ", "A", "N", "D", " ">>,
    <<"S", "U", "P", "E", "R", "C", "A", "L", "I", "F", "R", "A", "G", "I", "L", "I", "S", "T", "I", "C", "E", "X", "P", "I", "A", "L", "I", "D", "O", "C", "I", "O", "U", "S", "-", "A", "N", "D", "-", "T", "H", "E", "N", "-", "S", "O", "M", "E", "-", "M", "O", "R", "E", " ">> }

InitTitle == \E t \in TextsFrom(TitleFragments, MaxTitleFrags) : InitWith(t)

SpecTitle == InitTitle /\ [][NextOneCall]_vars

\* segments with keywords of the five types, the triggers of the three
\* bonuses of determine_type, and a run of 26 words
MaxTypeFrags == 3

TypeFragments == {
    <<DQ>>,
    <<" ", "t", "h", "e", " ", "a", "u", "t", "h", "o", "r", " ", "s", "a", "i", "d">>,
    <<" ", "a", " ", "p", "h", "r", "a", "s", "e">>,
    <<" ", "a", "n", " ", "i", "d", "e", "a">>,
    <<" ", "t", "h", "i", "s", " ", "t", "e", "x", "t">>,
    <<" ", "a", " ", "t", "e", "r", "m">>,
    <<" ", "i", "t", " ", "m", "e", "a", "n", "s">>,
    <<" ", "a", " ", "b", " ", "c", " ", "d", " ", "e", " ", "f", " ", "g", " ", "h", " ", "i", " ", "j", " ", "k", " ", "l", " ", "m", " ", "n", " ", "o", " ", "p", " ", "q", " ", "r", " ", "s", " ", "t", " ", "u", " ", "v", " ", "w", " ", "x", " ", "y", " ", "z">>,
    <<"t", "h", "e", " ", "q", "u", "i", "c", "k", " ", "b", "r", "o", "w", "n", " ", "f", "o", "x", " ", "j", "u", "m", "p", "s">> }

InitType == \E t \in TextsFrom(TypeFragments, MaxTypeFrags) : InitWith(t)

SpecType == InitType /\ [][NextOneCall]_vars

\* lines with the five source patterns of extract_source
MaxSourceFrags == 3

SourceFragments == {
    <<NL>>,
    <<" ", "s", "o", "u", "r", "c", "e", ":", " ", "a", " ", "b", "o", "o", "k">>,
    <<" ", "f", "r", "o", "m", " ", "t", "h", "e", " ", "o", "l", "d", " ", "t", "e", "x", "t">>,
    <<" ", "v", "i", "a", " ", "a", " ", "f", "r", "i", "e", "n", "d">>,
    <<" ", EMDASH, " ", "P", "l", "a", "t", "o">>,
    <<" ", "(", "R", "e", "p", "u", "b", "l", "i", "c", ")">>,
    <<"t", "h", "e", " ", "q", "u", "i", "c", "k", " ", "b", "r", "o", "w", "n", " ", "f", "o", "x", " ", "j", "u", "m", "p", "s">> }

InitSource == \E t \in TextsFrom(SourceFragments, MaxSourceFrags) : InitWith(t)

SpecSource == InitSource /\ [][NextOneCall]_vars

\* segments whose first line holds the title with dashes, colons and spaces
\* around it
MaxContentFrags == 4

ContentFragments == {
    <<NL>>,
    <<" ", "-", " ">>,
    <<DQ, "L", "o", "v", "e", DQ>>,
    <<" ", "i", "s", " ", "l", "o", "v", "e", ":">>,
    <<"L", "o", "v", "e", " ", "i", "s">>,
    <<"t", "h", "e", " ", "q", "u", "i", "c", "k", " ", "b", "r", "o", "w", "n", " ", "f", "o", "x", " ", "j", "u", "m", "p", "s">> }

InitContent == \E t \in TextsFrom(ContentFragments, MaxContentFrags) : InitWith(t)

SpecContent == InitContent /\ [][NextOneCall]_vars

----------------------------------------------------------------------------
(* Several calls at a time on the one instance smart_parser (main.py:323). *)
(* The lists segments and entries are locals of each call; the keyword     *)
(* tables are attributes of the shared instance.                           *)

\* the variables of the single call above
callVars == <<text, typed, phase, segments, idx, entries, error, clock, calls,
              passed, days, previous>>

ConcurrentTexts == {
    <<"t", "h", "e", " ", "q", "u", "i", "c", "k", " ", "b", "r", "o", "w", "n", " ", "f", "o", "x", " ", "j", "u", "m", "p", "s", NL, NL, "a", " ", "s", "e", "c", "o", "n", "d", " ", "p", "a", "r", "a", "g", "r", "a", "p", "h", " ", "o", "f", " ", "t", "e", "x", "t">>,
    <<"1", "2", ".", " ", "a", " ", "s", "h", "o", "r", "t", " ", "o", "n", "e", NL, "-", " ", "n", "o", "t", "e", "s", " ", "o", "n", " ", "W", "R", "I", "T", "I", "N", "G", " ", "a", " ", "d", "r", "a", "f", "t">>,
    <<DQ, "L", "o", "v", "e", DQ, " ", "i", "s", " ", "L", "o", "v", "e", ",", " ", "s", "a", "i", "d", " ", "t", "h", "e", " ", "a", "u", "t", "h", "o", "r", " ", EMDASH, " ", "P", "l", "a", "t", "o", " ", "(", "R", "e", "p", "u", "b", "l", "i", "c", ")">>,
    <<"a", " ", "s", "h", "o", "r", "t", " ", "o", "n", "e">> }

\* caller c calls smart_parser.parse_unstructured_text(t) (main.py:182-185)
CallBy(c, t) ==
    /\ callers[c].phase \in {"idle", "done"}
    /\ callers' = [callers EXCEPT ![c] =
                      [text |-> t, phase |-> "running",
                       segments |-> split_segments(t), idx |-> 1, entries |-> <<>>]]
    /\ UNCHANGED <<callVars, type_keywords, category_keywords>>
    /\ UNCHANGED <<storage, request, response, analytics, parses, handled,
                   entries_table, sequence, assigned, served>>

\* a variant of StepBy for a parser that keeps the list entries in an
\* attribute of the instance: the entry is appended to the list of every
\* running call
StepBy_shared_list(c) ==
    /\ callers[c].phase = "running"
    /\ callers[c].idx <= Len(callers[c].segments)
    /\ LET segment == callers[c].segments[callers[c].idx]
       IN  callers' = [d \in Callers |->
              IF d = c
              THEN [callers[c] EXCEPT
                       !.idx = @ + 1,
                       !.entries = IF too_short(segment) THEN @
                                   ELSE @ \o extract_entry_from_segment(segment, clock, clock)]
              ELSE IF callers[d].phase = "running" /\ ~too_short(segment)
              THEN [callers[d] EXCEPT
                       !.entries = @ \o extract_entry_from_segment(segment, clock, clock)]
              ELSE callers[d]]
    /\ UNCHANGED <<callVars, type_keywords, category_keywords>>
    /\ UNCHANGED <<storage, request, response, analytics, parses, handled,
                   entries_table, sequence, assigned, served>>

\* one iteration of the loop of caller c (main.py:187-192)
StepBy(c) ==
    /\ callers[c].phase = "running"
    /\ callers[c].idx <= Len(callers[c].segments)
    /\ LET segment == callers[c].segments[callers[c].idx]
       IN  callers' = [callers EXCEPT
              ![c].idx = @ + 1,
              ![c].entries = IF too_short(segment) THEN @
                             ELSE @ \o extract_entry_from_segment(segment, clock, clock)]
    /\ UNCHANGED <<callVars, type_keywords, category_keywords>>
    /\ UNCHANGED <<storage, request, response, analytics, parses, handled,
                   entries_table, sequence, assigned, served>>

\* the call of caller c returns entries (main.py:193)
ReturnBy(c) ==
    /\ callers[c].phase = "running"
    /\ callers[c].idx > Len(callers[c].segments)
    /\ callers' = [callers EXCEPT ![c].phase = "done"]
    /\ UNCHANGED <<callVars, type_keywords, category_keywords>>
    /\ UNCHANGED <<storage, request, response, analytics, parses, handled,
                   entries_table, sequence, assigned, served>>

NextConcurrent ==
    \/ \E c \in Callers : \E t \in ConcurrentTexts : CallBy(c, t)
    \/ \E c \in Callers : StepBy(c)
    \/ \E c \in Callers : ReturnBy(c)

SpecConcurrent == Init /\ [][NextConcurrent]_vars

----------------------------------------------------------------------------
(* The handler of POST /api/entries/smart-create (main.py:931-964) *)

\* the characters of the code points 32 to 126 (96 is written by name)
Ascii == <<
    " ", "!", DQ, "#", "$", "%", "&", "'", "(", ")", "*", "+",
    ",", "-", ".", "/", "0", "1", "2", "3", "4", "5", "6", "7",
    "8", "9", ":", ";", "<", "=", ">", "?", "@", "A", "B", "C",
    "D", "E", "F", "G", "H", "I", "J", "K", "L", "M", "N", "O",
    "P", "Q", "R", "S", "T", "U", "V", "W", "X", "Y", "Z", "[",
    "\\", "]", "^", "_", "grave", "a", "b", "c", "d", "e", "f", "g",
    "h", "i", "j", "k", "l", "m", "n", "o", "p", "q", "r", "s",
    "t", "u", "v", "w", "x", "y", "z", "{", "|", "}", "~" >>

\* chr(cp) for the code points of the modelled alphabet; any other code
\* point is a character named by its number
chr(cp) ==
    IF cp = 10 THEN NL
    ELSE IF cp = 9 THEN TAB
    ELSE IF cp \in 32..126 THEN Ascii[cp - 31]
    ELSE IF cp = 8212 THEN EMDASH
    ELSE IF cp = 8226 THEN BULLET
    ELSE "U+" \o ToString(cp)

\* the number of bytes of the UTF-8 sequence that the lead byte b starts,
\* 0 when b starts none
utf8_length(b) ==
    IF b < 128 THEN 1
    ELSE IF b \in 194..223 THEN 2
    ELSE IF b \in 224..239 THEN 3
    ELSE IF b \in 240..244 THEN 4
    ELSE 0

\* the values the byte after the lead byte b may have
utf8_second(b) ==
    IF b = 224 THEN 160..191
    ELSE IF b = 237 THEN 128..159
    ELSE IF b = 240 THEN 144..191
    ELSE IF b = 244 THEN 128..143
    ELSE 128..191

\* the code point of the sequence of n bytes at index i
utf8_code_point(bytes, i, n) ==
    IF n = 1 THEN bytes[i]
    ELSE IF n = 2 THEN (bytes[i] - 192) * 64 + (bytes[i + 1] - 128)
    ELSE IF n = 3 THEN (bytes[i] - 224) * 4096 + (bytes[i + 1] - 128) * 64
                          + (bytes[i + 2] - 128)
    ELSE (bytes[i] - 240) * 262144 + (bytes[i + 1] - 128) * 4096
            + (bytes[i + 2] - 128) * 64 + (bytes[i + 3] - 128)

\* a variant of utf8_decode for content.decode('latin-1'): every byte is a
\* character
latin1_decode(bytes) ==
    [ok |-> TRUE, text |-> AsSeq([i \in 1..Len(bytes) |-> chr(bytes[i])], Len(bytes))]

\* whether the bytes at index i are one well-formed UTF-8 sequence
utf8_valid_at(bytes, i) ==
    LET n == utf8_length(bytes[i])
    IN  /\ n > 0
        /\ i + n - 1 <= Len(bytes)
        /\ n > 1 => bytes[i + 1] \in utf8_second(bytes[i])
        /\ \A j \in (i + 2)..(i + n - 1) : bytes[j] \in 128..191

\* the characters of the bytes below 128 at the indices lo..hi
ascii_run(bytes, lo, hi) ==
    AsSeq([k \in 1..(hi - lo + 1) |-> chr(bytes[lo + k - 1])], hi - lo + 1)

\* content.decode('utf-8') from index i on, one run of bytes below 128 and
\* the sequence after it at a time: ok is FALSE when it raises
\* UnicodeDecodeError
RECURSIVE utf8_decode_from(_, _)
utf8_decode_from(bytes, i) ==
    LET j == First(i, Len(bytes), LAMBDA k : bytes[k] >= 128)
        run == ascii_run(bytes, i, j - 1)
    IN  IF j > Len(bytes) THEN [ok |-> TRUE, text |-> run]
        ELSE IF ~utf8_valid_at(bytes, j) THEN [ok |-> FALSE, text |-> <<>>]
        ELSE LET n == utf8_length(bytes[j])
                 rest == utf8_decode_from(bytes, j + n)
             IN  [ok |-> rest.ok,
                  text |-> IF rest.ok
                           THEN run \o <<chr(utf8_code_point(bytes, j, n))>>
                                    \o rest.text
                           ELSE <<>>]

utf8_decode(bytes) == utf8_decode_from(bytes, 1)

\* str(n) for a natural number
RECURSIVE str_int(_)
str_int(n) ==
    IF n < 10 THEN <<Digits[n + 1]>>
    ELSE str_int(n \div 10) \o <<Digits[(n % 10) + 1]>>

\* the f-string of processing_notes (main.py:963)
processing_notes(suggested_entries) ==
    <<"F", "o", "u", "n", "d", " ">> \o str_int(Len(suggested_entries))
        \o <<" ", "p", "o", "t", "e", "n", "t", "i", "a", "l", " ", "e", "n", "t", "r", "i", "e", "s", " ", "f", "r", "o", "m", " ", "y", "o", "u", "r", " ", "n", "o", "t", "e", "s", ".", " ", "R", "e", "v", "i", "e", "w", " ", "a", "n", "d", " ", "e", "d", "i", "t", " ", "b", "e", "f", "o", "r", "e", " ", "s", "a", "v", "i", "n", "g", "!">>

\* file.filename.endswith(('.txt', '.md'))
str_endswith(s, suffix) ==
    Len(suffix) <= Len(s) /\ SubSeq(s, Len(s) - Len(suffix) + 1, Len(s)) = suffix

is_text_filename(filename) ==
    str_endswith(filename, <<".", "t", "x", "t">>) \/ str_endswith(filename, <<".", "m", "d">>)

\* the uploads
MaxUploads == 2

Filenames == {
    <<"n", "o", "t", "e", "s", ".", "t", "x", "t">>,
    <<"n", "o", "t", "e", "s", ".", "m", "d">>,
    <<"n", "o", "t", "e", "s", ".", "p", "d", "f">>,
    <<"N", "O", "T", "E", "S", ".", "T", "X", "T">>,
    <<"t", "x", "t">> }

Contents == {
    \* two paragraphs, an em dash in the second
    <<116, 104, 101, 32, 113, 117, 105, 99, 107, 32, 98, 114, 111, 119,
      110, 32, 102, 111, 120, 32, 106, 117, 109, 112, 115, 10, 10, 97, 32,
      115, 101, 99, 111, 110, 100, 32, 112, 97, 114, 97, 103, 114, 97,
      112, 104, 32, 226, 128, 148, 32, 80, 108, 97, 116, 111, 32, 40, 82,
      101, 112, 117, 98, 108, 105, 99, 41>>,
    \* two list items, the second after a bullet
    <<45, 32, 110, 111, 116, 101, 115, 32, 111, 110, 32, 87, 82, 73, 84,
      73, 78, 71, 32, 97, 32, 100, 114, 97, 102, 116, 10, 226, 128, 162,
      32, 116, 104, 101, 32, 113, 117, 105, 99, 107, 32, 98, 114, 111,
      119, 110, 32, 102, 111, 120, 32, 106, 117, 109, 112, 115>>,
    \* a text too short for an entry
    <<97, 32, 115, 104, 111, 114, 116, 32, 111, 110, 101>>,
    \* an empty file
    <<>>,
    \* a byte that UTF-8 never uses
    <<116, 104, 101, 32, 113, 117, 105, 99, 107, 32, 98, 114, 111, 119,
      110, 32, 102, 111, 120, 32, 106, 117, 109, 112, 115, 32, 255>>,
    \* an em dash cut off after two bytes
    <<116, 104, 101, 32, 113, 117, 105, 99, 107, 32, 98, 114, 111, 119,
      110, 32, 102, 111, 120, 32, 106, 117, 109, 112, 115, 32, 226, 128>>,
    \* a continuation byte without a lead byte
    <<128, 32, 97, 32, 115, 101, 99, 111, 110, 100, 32, 112, 97, 114, 97,
      103, 114, 97, 112, 104, 32, 111, 102, 32, 116, 101, 120, 116>> }

\* a variant of analytics_event that records no count
analytics_event_uncounted(filename, suggested_entries) ==
    [event_type |-> "smart_upload", filename |-> filename, entries_found |-> 0]

\* the row ("smart_upload", json.dumps({"filename": ..., "entries_found": ...}))
\* that the handler inserts into analytics (main.py:942-958)
analytics_event(filename, suggested_entries) ==
    [event_type |-> "smart_upload",
     filename |-> filename,
     entries_found |-> Len(suggested_entries)]

\* one upload answered by smart_create_entries.  An exception that the
\* handler does not catch is answered by the framework with status 500.
smart_create_entries(filename, content) ==
    /\ handled < MaxUploads
    /\ handled' = handled + 1
    /\ request' = [filename |-> filename, content |-> content]
    /\ IF ~is_text_filename(filename)
       THEN /\ response' = [status |-> 400,
                            detail |-> <<"P", "l", "e", "a", "s", "e", " ", "u", "p", "l", "o", "a", "d", " ", "a", " ", ".", "t", "x", "t", " ", "o", "r", " ", ".", "m", "d", " ", "f", "i", "l", "e">>]
            /\ UNCHANGED <<analytics, parses>>
       ELSE IF ~utf8_decode(content).ok
       THEN /\ response' = [status |-> 500, detail |-> <<"U", "n", "i", "c", "o", "d", "e", "D", "e", "c", "o", "d", "e", "E", "r", "r", "o", "r">>]
            /\ UNCHANGED <<analytics, parses>>
       ELSE LET raw_text == utf8_decode(content).text
                suggested_entries == parse_unstructured_text(raw_text, clock)
            IN  /\ parses' = parses + 1
                /\ IF storage = "down"
                   THEN /\ response' = [status |-> 500, detail |-> <<"O", "p", "e", "r", "a", "t", "i", "o", "n", "a", "l", "E", "r", "r", "o", "r">>]
                        /\ UNCHANGED analytics
                   ELSE /\ analytics' = Append(analytics,
                              analytics_event(filename, suggested_entries))
                        /\ response' = [status |-> 200,
                                        suggested_entries |-> suggested_entries,
                                        raw_text |-> raw_text,
                                        processing_notes |->
                                            processing_notes(suggested_entries)]
    /\ UNCHANGED <<callVars, type_keywords, category_keywords, callers, storage,
                   entries_table, sequence, assigned, served>>

\* the database becomes unreachable, or reachable again
StorageChange ==
    /\ storage' = IF storage = "up" THEN "down" ELSE "up"
    /\ UNCHANGED <<callVars, type_keywords, category_keywords, callers, request,
                   response, analytics, parses, handled, entries_table, sequence,
                   assigned, served>>

NextUpload ==
    \/ \E filename \in Filenames : \E content \in Contents :
          smart_create_entries(filename, content)
    \/ StorageChange

SpecUpload == Init /\ [][NextUpload]_vars


-----------------------------------------------------------------------------
(* The table entries and the handlers create_entry, update_entry and       *)
(* delete_entry (main.py:458-580).  The table is modelled by its schema    *)
(* (main.py:100-114 and 130-144): id is a key that the database assigns    *)
(* from a sequence, dateAdded is NOT NULL.                                  *)

\* None, told apart from every str
None == <<"None">>

\* a variant of new_rowid for INTEGER PRIMARY KEY without AUTOINCREMENT: the
\* value after the largest id in the table
new_rowid_after_max(tbl, seq) ==
    IF tbl = {} THEN 1
    ELSE (CHOOSE i \in {r.id : r \in tbl} : \A r \in tbl : r.id <= i) + 1

\* the id that the database assigns to an inserted row: SERIAL and
\* AUTOINCREMENT take the value after the largest one ever assigned
new_rowid(tbl, seq) == seq + 1

\* the columns of a row that a request sets
user_fields(entry) ==
    [type         |-> entry.type,
     title        |-> entry.title,
     content      |-> entry.content,
     source       |-> entry.source,
     whyItStuck   |-> entry.whyItStuck,
     extendedNote |-> entry.extendedNote,
     category     |-> entry.category,
     tags         |-> entry.tags,
     batch        |-> entry.batch,
     dateAdded    |-> entry.dateAdded]

\* Entry(id=id, **entry.dict())
Entry(id, entry) == [id |-> id, fields |-> user_fields(entry)]

\* the requests
MaxRequests == 4

EntryIds == 1..MaxRequests

EntryCreate(title, dateAdded) ==
    [type |-> <<"w", "o", "r", "d">>, title |-> title, content |-> <<"t", "e", "x", "t">>, source |-> <<>>,
     whyItStuck |-> <<>>, extendedNote |-> <<>>, category |-> <<>>,
     tags |-> <<>>, batch |-> <<>>, dateAdded |-> dateAdded]

\* a request without dateAdded, one with an empty dateAdded, one with a date
EntryCreates ==
    { EntryCreate(<<"a", "l", "p", "h", "a">>, None),
      EntryCreate(<<"a", "l", "p", "h", "a">>, <<>>),
      EntryCreate(<<"b", "e", "t", "a">>, <<"d", "a", "y", " ", "9">>) }

\* if not entry.dateAdded: entry.dateAdded = datetime.now().strftime("%Y-%m-%d")
create_entry_date(entry, now) ==
    IF entry.dateAdded = None \/ entry.dateAdded = <<>> THEN strftime(now)
    ELSE entry.dateAdded

\* POST /api/entries (main.py:458-506)
create_entry(entry) ==
    /\ served < MaxRequests
    /\ served' = served + 1
    /\ request' = [op |-> "create_entry", entry |-> entry]
    /\ IF storage = "down"
       THEN /\ response' = [status |-> 500, detail |-> <<"O", "p", "e", "r", "a", "t", "i", "o", "n", "a", "l", "E", "r", "r", "o", "r">>]
            /\ UNCHANGED <<entries_table, sequence, assigned>>
       ELSE LET dated == [entry EXCEPT !.dateAdded = create_entry_date(entry, clock)]
                new_id == new_rowid(entries_table, sequence)
            IN  /\ entries_table' = entries_table \cup {Entry(new_id, dated)}
                /\ sequence' = new_id
                /\ assigned' = assigned \cup {new_id}
                /\ response' = [status |-> 200, entry |-> Entry(new_id, dated)]
    /\ UNCHANGED <<callVars, type_keywords, category_keywords, callers, storage,
                   analytics, parses, handled>>

\* the rows that WHERE id=entry_id selects
rows_with_id(tbl, entry_id) == {r \in tbl : r.id = entry_id}

\* the UPDATE breaks the constraint dateAdded TEXT NOT NULL
update_violates(entry) == entry.dateAdded = None

\* a variant of update_rows that writes the row under the next id
update_rows_renumbered(tbl, entry_id, entry) ==
    (tbl \ rows_with_id(tbl, entry_id)) \cup {Entry(entry_id + 1, entry)}

\* UPDATE entries SET ... WHERE id=entry_id
update_rows(tbl, entry_id, entry) ==
    (tbl \ rows_with_id(tbl, entry_id)) \cup {Entry(entry_id, entry)}

\* PUT /api/entries/{entry_id} (main.py:509-554)
update_entry(entry_id, entry) ==
    /\ served < MaxRequests
    /\ served' = served + 1
    /\ request' = [op |-> "update_entry", entry_id |-> entry_id, entry |-> entry]
    /\ IF storage = "down"
       THEN /\ response' = [status |-> 500, detail |-> <<"O", "p", "e", "r", "a", "t", "i", "o", "n", "a", "l", "E", "r", "r", "o", "r">>]
            /\ UNCHANGED entries_table
       ELSE IF rows_with_id(entries_table, entry_id) = {}
       THEN /\ response' = [status |-> 404, detail |-> <<"E", "n", "t", "r", "y", " ", "n", "o", "t", " ", "f", "o", "u", "n", "d">>]
            /\ UNCHANGED entries_table
       ELSE IF update_violates(entry)
       THEN /\ response' = [status |-> 500, detail |-> <<"I", "n", "t", "e", "g", "r", "i", "t", "y", "E", "r", "r", "o", "r">>]
            /\ UNCHANGED entries_table
       ELSE /\ entries_table' = update_rows(entries_table, entry_id, entry)
            /\ response' = [status |-> 200, entry |-> Entry(entry_id, entry)]
    /\ UNCHANGED <<callVars, type_keywords, category_keywords, callers, storage,
                   analytics, parses, handled, sequence, assigned>>

\* a variant of delete_missing that never reports a missing row
delete_missing_never(tbl, entry_id) == FALSE

\* cursor.rowcount == 0 after the DELETE
delete_missing(tbl, entry_id) == rows_with_id(tbl, entry_id) = {}

\* DELETE /api/entries/{entry_id} (main.py:557-580)
delete_entry(entry_id) ==
    /\ served < MaxRequests
    /\ served' = served + 1
    /\ request' = [op |-> "delete_entry", entry_id |-> entry_id]
    /\ IF storage = "down"
       THEN /\ response' = [status |-> 500, detail |-> <<"O", "p", "e", "r", "a", "t", "i", "o", "n", "a", "l", "E", "r", "r", "o", "r">>]
            /\ UNCHANGED entries_table
       ELSE IF delete_missing(entries_table, entry_id)
       THEN /\ response' = [status |-> 404, detail |-> <<"E", "n", "t", "r", "y", " ", "n", "o", "t", " ", "f", "o", "u", "n", "d">>]
            /\ UNCHANGED entries_table
       ELSE /\ entries_table' = entries_table \ rows_with_id(entries_table, entry_id)
            /\ response' = [status |-> 200,
                            message |-> <<"E", "n", "t", "r", "y", " ", "d", "e", "l", "e", "t", "e", "d", " ", "s", "u", "c", "c", "e", "s", "s", "f", "u", "l", "l", "y">>]
    /\ UNCHANGED <<callVars, type_keywords, category_keywords, callers, storage,
                   analytics, parses, handled, sequence, assigned>>

\* the one upload sent between the calls on the table
StoreFilenames == {<<"n", "o", "t", "e", "s", ".", "t", "x", "t">>, <<"n", "o", "t", "e", "s", ".", "p", "d", "f">>}

StoreContents == {
    \* one paragraph
    <<116, 104, 101, 32, 113, 117, 105, 99, 107, 32, 98, 114, 111, 119,
      110, 32, 102, 111, 120, 32, 106, 117, 109, 112, 115>>,
    \* a byte that UTF-8 never uses
    <<255>> }

NextStore ==
    \/ \E entry \in EntryCreates : create_entry(entry)
    \/ \E entry_id \in EntryIds : \E entry \in EntryCreates :
          update_entry(entry_id, entry)
    \/ \E entry_id \in EntryIds : delete_entry(entry_id)
    \/ \E filename \in StoreFilenames : \E content \in StoreContents :
          handled = 0 /\ smart_create_entries(filename, content)
    \/ StorageChange

SpecStore == Init /\ [][NextStore]_vars
----------------------------------------------------------------------------
(* Properties of the result.  entries[k] is the entry derived from the      *)
(* segment passed[k].                                                       *)

Returned == phase = "done" /\ error = "none"

Derived == 1..Len(entries)

LinesOf(k) == segment_lines(passed[k])

FirstLineOf(k) == LinesOf(k)[1]

\* the number of indexes at which t occurs in s
Occurrences(t, s) == Cardinality({i \in 1..Len(s) : OccursAt(s, t, i)})

\* C1: every entry returned by parse_unstructured_text has a non-empty
\* title.  The code returns an empty title when the first line starts with
\* '.', '!' or '?' and is not a short line.
C1_TitleNonEmpty ==
    Returned => \A k \in Derived : entries[k].title # <<>>

\* a double-quoted substring: two double quotes with at least one character
\* and no double quote between them
HasQuoted(line) ==
    \E p \in 1..Len(line) :
        /\ line[p] = DQ
        /\ \E q \in (p + 2)..Len(line) :
              /\ line[q] = DQ
              /\ \A i \in (p + 1)..(q - 1) : line[i] # DQ

\* C2 as stated: every title has at most 100 characters
C2_TitleAtMost100 ==
    Returned => \A k \in Derived : Len(entries[k].title) <= 100

\* C2 as amended: a title has at most 100 characters unless the first line
\* holds a double-quoted substring; then the title is quoted text of the
\* first line, of any length up to that of the line less its two quotes
C2_TitleBoundedUnlessQuoted ==
    Returned =>
        \A k \in Derived :
            /\ ~HasQuoted(FirstLineOf(k)) => Len(entries[k].title) <= 100
            /\ HasQuoted(FirstLineOf(k)) =>
                  /\ Len(entries[k].title) <= Len(FirstLineOf(k)) - 2
                  /\ str_in(<<DQ>> \o entries[k].title \o <<DQ>>, FirstLineOf(k))

\* the 50-character fallback has produced a title
C2_Witness ==
    /\ Returned
    /\ \E k \in Derived :
          /\ ~HasQuoted(FirstLineOf(k))
          /\ Len(FirstLineOf(k)) >= 100
          /\ entries[k].title # <<>>
          /\ Len(entries[k].title) <= 50

\* C3: every segment handed to extract_entry_from_segment is trimmed and
\* has at least 20 characters, and every entry is derived from such a segment
C3_SegmentLength ==
    /\ Len(entries) <= Len(passed)
    /\ \A k \in 1..Len(passed) :
          /\ Len(str_strip(passed[k])) >= 20
          /\ passed[k] = str_strip(passed[k])

\* a call has dropped a short segment and derived an entry from a long one
C3_Witness ==
    /\ Returned
    /\ entries # <<>>
    /\ \E i \in 1..Len(segments) : Len(segments[i]) < 20

\* some keyword of a type other than the given ones occurs in the segment
KeywordOccurs(segment, except) ==
    \E i \in 1..Len(type_keywords) :
        /\ type_keywords[i].key \notin except
        /\ \E j \in 1..Len(type_keywords[i].keywords) :
              str_in(type_keywords[i].keywords[j], str_lower(segment))

\* one of the triggers of the bonus for the type word occurs in the segment
WordBonus(segment) ==
    \/ str_in(<<"d", "e", "f", "i", "n", "i", "t", "i", "o", "n">>, str_lower(segment))
    \/ str_in(<<"m", "e", "a", "n", "s">>, str_lower(segment))
    \/ str_in(<<"r", "e", "f", "e", "r", "s", " ", "t", "o">>, str_lower(segment))

\* the segment has at least two double-quote characters
TwoQuotes(segment) ==
    \E p \in 1..Len(segment) :
        /\ segment[p] = DQ
        /\ \E q \in (p + 1)..Len(segment) : segment[q] = DQ

\* the number of whitespace-separated tokens of the segment
Tokens(segment) ==
    Cardinality({i \in 1..Len(segment) :
        ~IsSpace(segment[i]) /\ (i = Len(segment) \/ IsSpace(segment[i + 1]))})

\* C4: a segment with no type keyword and none of the three bonuses is
\* classified as "concept".  The code returns "word", the first key of the
\* table, whenever all scores are zero.
C4_TypeDefaultsToConcept ==
    Returned =>
        \A k \in Derived :
            (/\ ~KeywordOccurs(passed[k], {})
             /\ ~TwoQuotes(passed[k])
             /\ ~WordBonus(passed[k])
             /\ Tokens(passed[k]) <= 50)
            => entries[k].type = "concept"

\* C5 as stated: at least two double quotes and no keyword of the types
\* word, phrase, author, concept give the type "excerpt"
C5_QuotesGiveExcerpt ==
    Returned =>
        \A k \in Derived :
            (TwoQuotes(passed[k]) /\ ~KeywordOccurs(passed[k], {"excerpt"}))
            => entries[k].type = "excerpt"

\* C5 as amended: at least two double quotes, no keyword of the types word,
\* phrase, author, concept and none of "definition", "means", "refers to"
\* give the type "excerpt".  The three words trigger a bonus of 2 for the
\* type word, which ties with the bonus for the quotes and wins the tie.
C5_QuotesGiveExcerptUnlessWordBonus ==
    Returned =>
        \A k \in Derived :
            (/\ TwoQuotes(passed[k])
             /\ ~KeywordOccurs(passed[k], {"excerpt"})
             /\ ~WordBonus(passed[k]))
            => entries[k].type = "excerpt"

\* the bonus for the quotes alone has decided the type
C5_Witness ==
    /\ Returned
    /\ \E k \in Derived :
          /\ TwoQuotes(passed[k])
          /\ ~KeywordOccurs(passed[k], {})
          /\ ~WordBonus(passed[k])
          /\ Tokens(passed[k]) <= 50
          /\ entries[k].type = "excerpt"

\* kw occurs in the segment, in any letter case, followed by one of seps
FollowedBy(segment, kw, seps) ==
    LET low == str_lower(segment)
    IN  \E i \in 1..(Len(segment) - Len(kw)) :
            /\ segment[i + Len(kw)] \in seps
            /\ SubSeq(low, i, i + Len(kw) - 1) = kw

\* a line of the segment ends with an em dash and a clause after it
EmDashClause(segment) ==
    \E p \in 1..Len(segment) :
        /\ segment[p] = EMDASH
        /\ \E e \in (p + 1)..Len(segment) :
              /\ e = Len(segment) \/ segment[e + 1] = NL
              /\ \A i \in (p + 1)..e : segment[i] \notin {EMDASH, NL}

\* a line of the segment ends with a parenthetical
TrailingParenthetical(segment) ==
    \E p \in 1..Len(segment) :
        /\ segment[p] = "("
        /\ \E q \in (p + 2)..Len(segment) :
              /\ segment[q] = ")"
              /\ q = Len(segment) \/ segment[q + 1] = NL
              /\ \A i \in (p + 1)..(q - 1) : segment[i] # ")"

SourceWords == {<<"s", "o", "u", "r", "c", "e">>, <<"f", "r", "o", "m">>, <<"v", "i", "a">>}

\* C6 as stated: without "source:", "from:", "via:", an em-dash clause or a
\* trailing parenthetical the source is "Smart Import"
C6_SourceFallback ==
    Returned =>
        \A k \in Derived :
            (/\ \A kw \in SourceWords : ~FollowedBy(passed[k], kw, {":"})
             /\ ~EmDashClause(passed[k])
             /\ ~TrailingParenthetical(passed[k]))
            => entries[k].source = SmartImport

\* C6 as amended: the three words count when a colon or a whitespace
\* character follows them
C6_SourceFallbackNoSeparator ==
    Returned =>
        \A k \in Derived :
            (/\ \A kw \in SourceWords :
                    ~FollowedBy(passed[k], kw, {":", " ", NL, TAB})
             /\ ~EmDashClause(passed[k])
             /\ ~TrailingParenthetical(passed[k]))
            => entries[k].source = SmartImport

\* the fallback has been taken for a segment with a parenthetical that does
\* not end a line
C6_Witness ==
    /\ Returned
    /\ \E k \in Derived :
          /\ entries[k].source = SmartImport
          /\ \A kw \in SourceWords :
                ~FollowedBy(passed[k], kw, {":", " ", NL, TAB})
          /\ ~EmDashClause(passed[k])
          /\ ~TrailingParenthetical(passed[k])
          /\ \E i \in 1..Len(passed[k]) : passed[k][i] = ")"

\* the number of occurrences of t that s.replace(t, '') removes: the
\* occurrences found left to right without overlap, from index i on
RECURSIVE Removed(_, _, _)
Removed(s, t, i) ==
    IF t = <<>> \/ i + Len(t) - 1 > Len(s) THEN 0
    ELSE IF SubSeq(s, i, i + Len(t) - 1) = t THEN 1 + Removed(s, t, i + Len(t))
    ELSE Removed(s, t, i + 1)

\* the occurrences of the title in the lines of the segment, line by line
RECURSIVE OccurrencesInLines(_, _)
OccurrencesInLines(t, lines) ==
    IF lines = <<>> THEN 0
    ELSE Occurrences(t, lines[1]) + OccurrencesInLines(t, Tail(lines))

\* s ends with t
EndsWith(s, t) ==
    Len(t) <= Len(s) /\ SubSeq(s, Len(s) - Len(t) + 1, Len(s)) = t

SameDate == Cardinality(days \cup previous.days) <= 1

\* C8: two calls on the same text whose clock readings all fall on the same
\* date return identical lists: the same length, the same order, and every
\* field of every entry equal
C8_Deterministic ==
    (phase = "done" /\ calls >= 2 /\ SameDate) => entries = previous.result

\* the second call returned at a later time of the same day, and both calls
\* derived two entries
C8_Witness ==
    /\ phase = "done"
    /\ calls >= 2
    /\ SameDate
    /\ clock > 0
    /\ Len(entries) = 2
    /\ Len(previous.result) = 2

\* a blank line starts at the newline at index p: only spaces and tabs
\* stand between it and the next newline
BlankLineAt(t, p) ==
    /\ t[p] = NL
    /\ LET r == First(p + 1, Len(t), LAMBDA i : t[i] \notin {" ", TAB})
       IN  r <= Len(t) /\ t[r] = NL

\* a paragraph: at least 20 characters, no whitespace at either end and no
\* blank line
IsParagraph(s) ==
    /\ Len(s) >= 20
    /\ ~IsSpace(s[1])
    /\ ~IsSpace(s[Len(s)])
    /\ \A p \in 1..Len(s) : ~BlankLineAt(s, p)

\* the text up to its first blank line, and the text after the whitespace
\* that holds that blank line
FirstBlankLine(t) == First(1, Len(t), LAMBDA p : BlankLineAt(t, p))

FirstParagraph(t) ==
    SubSeq(t, 1, Last(1, FirstBlankLine(t), LAMBDA i : ~IsSpace(t[i])))

SecondParagraph(t) ==
    SubSeq(t, First(FirstBlankLine(t), Len(t), LAMBDA i : ~IsSpace(t[i])), Len(t))

\* the text is two paragraphs separated by a blank line
TwoParagraphs(t) ==
    /\ FirstBlankLine(t) <= Len(t)
    /\ IsParagraph(FirstParagraph(t))
    /\ IsParagraph(SecondParagraph(t))

\* a list marker starts at index p of the text: a line that begins with
\* digits and a period, or with '-', a bullet (\u2022) or '*' and whitespace
MarkerAt(t, p) ==
    /\ p = 1 \/ t[p - 1] = NL
    /\ \/ /\ IsDigit(t[p])
          /\ LET d == First(p, Len(t), LAMBDA i : ~IsDigit(t[i]))
             IN  d <= Len(t) /\ t[d] = "."
       \/ /\ t[p] \in {"-", BULLET, "*"}
          /\ p < Len(t)
          /\ IsSpace(t[p + 1])

\* C9 as stated: a text of two paragraphs of at least 20 characters each,
\* separated by a blank line, gives exactly two segments and two entries,
\* the first taken from the first paragraph and the second from the second
C9_TwoParagraphsTwoSegments ==
    (Returned /\ TwoParagraphs(text)) =>
        /\ Len(passed) = 2
        /\ Len(entries) = 2
        /\ str_in(passed[1], FirstParagraph(text))
        /\ str_in(passed[2], SecondParagraph(text))

\* C9 as amended: when, in addition, no line of the text begins with a list
\* marker, the two segments are the two paragraphs, in order, and each
\* gives one entry
C9_TwoPlainParagraphsTwoSegments ==
    (/\ Returned
     /\ TwoParagraphs(text)
     /\ \A p \in 1..Len(text) : ~MarkerAt(text, p)) =>
        /\ segments = <<FirstParagraph(text), SecondParagraph(text)>>
        /\ passed = segments
        /\ Len(entries) = 2

\* two different paragraphs without a list marker have been split
C9_Witness ==
    /\ Returned
    /\ TwoParagraphs(text)
    /\ \A p \in 1..Len(text) : ~MarkerAt(text, p)
    /\ FirstParagraph(text) # SecondParagraph(text)
    /\ passed = <<FirstParagraph(text), SecondParagraph(text)>>

\* C10: parse_unstructured_text ends by returning a list and never by an
\* exception, and the list is empty for the empty string and for every text
\* all of whose trimmed segments have fewer than 20 characters
C10_NeverFails ==
    phase = "done" =>
        /\ error = "none"
        /\ text = <<>> => entries = <<>>
        /\ (\A i \in 1..Len(segments) : Len(segments[i]) < 20) => entries = <<>>

\* a call on a text that has segments, all of them short, returned the
\* empty list
C10_Witness ==
    /\ Returned
    /\ Len(segments) >= 2
    /\ \A i \in 1..Len(segments) : Len(segments[i]) < 20
    /\ entries = <<>>

----------------------------------------------------------------------------
(* Properties of the classifiers and of the splitter *)

\* the number of keywords of the i-th category that occur in the
\* lower-cased segment
CategoryMatches(segment, i) ==
    Cardinality({j \in 1..Len(category_keywords[i].keywords) :
                    str_in(category_keywords[i].keywords[j], str_lower(segment))})

\* C11: determine_category returns a category whose count of keywords that
\* occur in the segment is maximal if and only if that maximum is greater
\* than zero, and "General" for a segment in which no category keyword occurs
C11_CategoryMaxOrGeneral ==
    Returned =>
        \A k \in Derived :
            IF \A i \in 1..Len(category_keywords) : CategoryMatches(passed[k], i) = 0
            THEN entries[k].category = "General"
            ELSE \E i \in 1..Len(category_keywords) :
                    /\ entries[k].category = category_keywords[i].key
                    /\ CategoryMatches(passed[k], i) > 0
                    /\ \A j \in 1..Len(category_keywords) :
                          CategoryMatches(passed[k], j) <= CategoryMatches(passed[k], i)

\* one call returned an entry of the category "General" and an entry whose
\* category won with two keywords against a category with one
C11_Witness ==
    /\ Returned
    /\ \E k \in Derived : entries[k].category = "General"
    /\ \E k \in Derived : \E i, j \in 1..Len(category_keywords) :
          /\ entries[k].category = category_keywords[i].key
          /\ CategoryMatches(passed[k], i) >= 2
          /\ CategoryMatches(passed[k], j) = 1

\* the keys of the category table
CategoryKeys == {category_keywords[i].key : i \in 1..Len(category_keywords)}

ClosedCategories == {
    "Literary Terms", "Philosophical Thinkers", "Cultural Critique",
    "Writing Process", "Political Rhetoric", "Legal Language",
    "Translation Philosophy", "Material Metaphor" }

RECURSIVE OccurInOrder(_, _, _)
OccurInOrder(t, segs, i) ==
    \/ segs = <<>>
    \/ LET p == First(i, Len(t) - Len(segs[1]) + 1,
                      LAMBDA q : SubSeq(t, q, q + Len(segs[1]) - 1) = segs[1])
       IN  /\ p <= Len(t) - Len(segs[1]) + 1
           /\ OccurInOrder(t, Tail(segs), p + Len(segs[1]))

\* C13: the result has exactly one entry per trimmed segment of at least 20
\* characters, in the order in which those segments occur in the text, and
\* the i-th entry is the entry computed from the i-th such segment alone
C13_OneEntryPerSegmentInOrder ==
    Returned =>
        /\ passed = SelectSeq(segments, LAMBDA s : Len(s) >= 20)
        /\ OccurInOrder(text, passed, 1)
        /\ Len(entries) = Len(passed)
        /\ \A k \in Derived :
              <<entries[k]>> = extract_entry_from_segment(passed[k], clock, clock)

\* a call returned the entries of two different long segments, the second
\* of them found after a list marker
C13_Witness ==
    /\ Returned
    /\ Len(entries) = 2
    /\ entries[1] # entries[2]
    /\ \E p \in 1..Len(text) : MarkerAt(text, p)

\* the text has no delimiter: no blank line and no line that begins with a
\* numeric list marker or a bullet marker
NoDelimiter(t) == \A p \in 1..Len(t) : ~BlankLineAt(t, p) /\ ~MarkerAt(t, p)

\* C15: a text without delimiters yields exactly one segment, the whole
\* trimmed text, when the trimmed text has at least 20 characters, and no
\* segment otherwise
C15_NoDelimiterOneSegment ==
    (Returned /\ NoDelimiter(text)) =>
        /\ passed = IF Len(str_strip(text)) >= 20 THEN <<str_strip(text)>> ELSE <<>>
        /\ Len(entries) = Len(passed)

\* a text of two lines with whitespace at its ends and no delimiter gave one
\* segment
C15_Witness ==
    /\ Returned
    /\ NoDelimiter(text)
    /\ text # str_strip(text)
    /\ Len(passed) = 1
    /\ \E i \in 1..Len(passed[1]) : passed[1][i] = NL

\* C14: in every interleaving of the calls of several callers on the shared
\* instance, each call returns what it returns when it runs alone, and the
\* keyword tables of the instance stay as __init__ made them
C14_ConcurrentCallsIndependent ==
    /\ type_keywords = InitTypeKeywords
    /\ category_keywords = InitCategoryKeywords
    /\ \A c \in Callers :
          callers[c].phase = "done" =>
              callers[c].entries = parse_unstructured_text(callers[c].text, clock)

\* one caller has returned two entries while another caller, on another
\* text, is in the middle of its loop
C14_Witness ==
    \E c, d \in Callers :
        /\ callers[c].phase = "done"
        /\ Len(callers[c].entries) = 2
        /\ callers[d].phase = "running"
        /\ callers[d].text # callers[c].text
        /\ callers[d].idx = 2
        /\ Len(callers[d].entries) = 1


\* ord(c): the code point of a character of the modelled alphabet, and the
\* replacement character's for any other
CodePointOf(c) ==
    IF c = NL THEN 10
    ELSE IF c = TAB THEN 9
    ELSE IF c = EMDASH THEN 8212
    ELSE IF c = BULLET THEN 8226
    ELSE IF \E cp \in 32..126 : Ascii[cp - 31] = c
         THEN CHOOSE cp \in 32..126 : Ascii[cp - 31] = c
    ELSE 65533

\* the UTF-8 bytes of one code point below 65536
BytesOf(cp) ==
    IF cp < 128 THEN <<cp>>
    ELSE IF cp < 2048 THEN <<192 + (cp \div 64), 128 + (cp % 64)>>
    ELSE <<224 + (cp \div 4096), 128 + ((cp \div 64) % 64), 128 + (cp % 64)>>

\* the UTF-8 bytes of a string
RECURSIVE Encoded(_)
Encoded(s) ==
    IF Len(s) = 0 THEN <<>>
    ELSE IF Len(s) = 1 THEN BytesOf(CodePointOf(s[1]))
    ELSE LET h == Len(s) \div 2
         IN  Encoded(SubSeq(s, 1, h)) \o Encoded(SubSeq(s, h + 1, Len(s)))

\* the decimal number written at the start of s, 0 when there is none
RECURSIVE NumberAt(_, _, _)
NumberAt(s, i, n) ==
    IF i <= Len(s) /\ \E d \in 0..9 : Digits[d + 1] = s[i]
    THEN NumberAt(s, i + 1, 10 * n + (CHOOSE d \in 0..9 : Digits[d + 1] = s[i]))
    ELSE n

\* C16: the answer to an accepted upload holds as raw_text the text whose
\* UTF-8 encoding is the uploaded content, as suggested_entries the entries
\* that the parser gives for that text, and a processing note "Found N
\* potential entries ..." in which N is the number of suggested entries
C16_AcceptedUploadAnswer ==
    response.status = 200 =>
        /\ is_text_filename(request.filename)
        /\ Encoded(response.raw_text) = request.content
        /\ response.suggested_entries =
               parse_unstructured_text(response.raw_text, clock)
        /\ SubSeq(response.processing_notes, 1, 6) = <<"F", "o", "u", "n", "d", " ">>
        /\ NumberAt(response.processing_notes, 7, 0) = Len(response.suggested_entries)
        /\ SubSeq(response.processing_notes, 8, 25) = <<" ", "p", "o", "t", "e", "n", "t", "i", "a", "l", " ", "e", "n", "t", "r", "i", "e", "s">>

\* an upload of two paragraphs with an em dash was answered with two
\* suggested entries
C16_Witness ==
    /\ response.status = 200
    /\ Len(response.suggested_entries) = 2
    /\ \E i \in 1..Len(response.raw_text) : response.raw_text[i] = EMDASH
    /\ response.suggested_entries[2].source = <<"P", "l", "a", "t", "o", " ", "(", "R", "e", "p", "u", "b", "l", "i", "c", ")">>

\* the upload is not text: its filename ends neither in .txt nor in .md, or
\* its bytes are not the UTF-8 encoding of any text
NonTextUpload(r) ==
    \/ ~(str_endswith(r.filename, <<".", "t", "x", "t">>) \/ str_endswith(r.filename, <<".", "m", "d">>))
    \/ Encoded(utf8_decode(r.content).text) # r.content

\* C17: every non-text upload is answered with status 400, is not parsed and
\* leaves no analytics event
C17_NonTextRejected ==
    [][(handled' = handled + 1 /\ NonTextUpload(request')) =>
          /\ response'.status = 400
          /\ parses' = parses
          /\ analytics' = analytics]_vars

\* the index of the first double quote that opens a double-quoted substring
\* of the line
QuoteOpens(line, p) ==
    /\ line[p] = DQ
    /\ \E q \in (p + 2)..Len(line) :
          /\ line[q] = DQ
          /\ \A i \in (p + 1)..(q - 1) : line[i] # DQ

\* the text between the first opening double quote and the next double quote
QuotedText(line) ==
    LET p == CHOOSE i \in 1..Len(line) :
                 QuoteOpens(line, i) /\ \A j \in 1..(i - 1) : ~QuoteOpens(line, j)
        q == CHOOSE i \in (p + 2)..Len(line) :
                 line[i] = DQ /\ \A j \in (p + 1)..(i - 1) : line[j] # DQ
    IN  SubSeq(line, p + 1, q - 1)

\* the line has a letter and all its letters are upper-case
AllUpper(line) ==
    /\ \E i \in 1..Len(line) : IsUpper(line[i])
    /\ \A i \in 1..Len(line) : ~IsLower(line[i])

\* the line up to its first '.', '!' or '?', the whole line when it has none
FirstClause(line) ==
    IF \E i \in 1..Len(line) : line[i] \in {".", "!", "?"}
    THEN SubSeq(line, 1, (CHOOSE i \in 1..Len(line) :
                              /\ line[i] \in {".", "!", "?"}
                              /\ \A j \in 1..(i - 1) : line[j] \notin {".", "!", "?"}) - 1)
    ELSE line

\* s without the whitespace at its two ends
Trimmed(s) ==
    IF \A i \in 1..Len(s) : IsSpace(s[i]) THEN <<>>
    ELSE SubSeq(s, CHOOSE i \in 1..Len(s) :
                       ~IsSpace(s[i]) /\ \A j \in 1..(i - 1) : IsSpace(s[j]),
                   CHOOSE i \in 1..Len(s) :
                       ~IsSpace(s[i]) /\ \A j \in (i + 1)..Len(s) : IsSpace(s[j]))

\* the five rules in their order; the length that rule 4 compares with 100
\* is the length of the clause before it is trimmed
TitleReference(line) ==
    IF \E p \in 1..Len(line) : QuoteOpens(line, p) THEN QuotedText(line)
    ELSE IF AllUpper(line) /\ Len(line) < 100 THEN line
    ELSE IF Tokens(line) <= 5 /\ Len(line) < 50 THEN line
    ELSE IF Len(FirstClause(line)) < 100 THEN Trimmed(FirstClause(line))
    ELSE Trimmed(SubSeq(line, 1, 50))

\* the number of the rule that gives the title of the line
TitleRule(line) ==
    IF \E p \in 1..Len(line) : QuoteOpens(line, p) THEN 1
    ELSE IF AllUpper(line) /\ Len(line) < 100 THEN 2
    ELSE IF Tokens(line) <= 5 /\ Len(line) < 50 THEN 3
    ELSE IF Len(FirstClause(line)) < 100 THEN 4
    ELSE 5

\* C18: the title of every entry is what the five rules, tried in their
\* order with the first match winning, give for the first line of its
\* segment: the first double-quoted text; else the whole line when it is
\* upper-case and shorter than 100 characters; else the whole line when it
\* has at most 5 words and fewer than 50 characters; else the trimmed first
\* clause before '.', '!' or '?' when that clause is shorter than 100
\* characters; else the trimmed first 50 characters
C18_TitleRulesInOrder ==
    Returned =>
        \A k \in Derived : entries[k].title = TitleReference(FirstLineOf(k))

\* the title of an upper-case first line with a double-quoted word is the
\* quoted word, not the line
C18_Witness ==
    /\ Returned
    /\ Len(entries) = 1
    /\ AllUpper(FirstLineOf(1))
    /\ Len(FirstLineOf(1)) < 100
    /\ entries[1].title = <<"L", "O", "V", "E">>
    /\ entries[1].title # FirstLineOf(1)

\* the fixed order of the types
TypeOrder == <<"word", "phrase", "author", "concept", "excerpt">>

\* the keywords of the type
KeywordsOf(ty) ==
    type_keywords[CHOOSE i \in 1..Len(type_keywords) : type_keywords[i].key = ty].keywords

\* the total score of the type for the segment: one point for each keyword
\* of the type that is a substring of the lower-cased segment, for excerpt
\* two points when the segment has two double quotes and one point when it
\* has more than 50 words, for word two points when it has a bonus trigger
TotalScore(segment, ty) ==
    LET low == str_lower(segment)
    IN  Cardinality({j \in 1..Len(KeywordsOf(ty)) :
                        \E p \in 1..Len(low) : OccursAt(low, KeywordsOf(ty)[j], p)})
        + (IF ty = "excerpt" /\ TwoQuotes(segment) THEN 2 ELSE 0)
        + (IF ty = "excerpt" /\ Tokens(segment) > 50 THEN 1 ELSE 0)
        + (IF ty = "word" /\ WordBonus(segment) THEN 2 ELSE 0)

\* the index of the type in the fixed order
OrderOf(ty) == CHOOSE i \in 1..Len(TypeOrder) : TypeOrder[i] = ty

\* C19: the type of every entry has a total score that no type exceeds, and
\* every type before it in the order word, phrase, author, concept, excerpt
\* has a smaller total score
C19_TypeMaxScoreFirstInOrder ==
    Returned =>
        \A k \in Derived :
            LET total == AsSeq([i \in 1..Len(TypeOrder) |->
                                   TotalScore(passed[k], TypeOrder[i])],
                               Len(TypeOrder))
            IN  /\ \E i \in 1..Len(TypeOrder) : TypeOrder[i] = entries[k].type
                /\ \A i \in 1..Len(TypeOrder) :
                      /\ total[i] <= total[OrderOf(entries[k].type)]
                      /\ i < OrderOf(entries[k].type) =>
                             total[i] < total[OrderOf(entries[k].type)]

\* a segment of more than 50 words in which phrase and excerpt both have the
\* maximal score became a phrase
C19_Witness ==
    /\ Returned
    /\ Len(entries) = 1
    /\ entries[1].type = "phrase"
    /\ Tokens(passed[1]) > 50
    /\ TotalScore(passed[1], "excerpt") = TotalScore(passed[1], "phrase")
    /\ TotalScore(passed[1], "word") < TotalScore(passed[1], "phrase")

\* what each of the five patterns captures in the segment, in the priority
\* order source, from, via, em-dash clause, trailing parenthetical; <<>> for
\* a pattern that matches nowhere
PatternCaptures(segment) ==
    << search_keyword(segment, <<"s", "o", "u", "r", "c", "e">>),
       search_keyword(segment, <<"f", "r", "o", "m">>),
       search_keyword(segment, <<"v", "i", "a">>),
       search_emdash(segment),
       search_paren(segment) >>

\* the first index at which t occurs in s, 0 when it occurs nowhere
IndexOf(s, t) ==
    IF \E i \in 1..Len(s) : OccursAt(s, t, i)
    THEN CHOOSE i \in 1..Len(s) : OccursAt(s, t, i) /\ \A j \in 1..(i - 1) : ~OccursAt(s, t, j)
    ELSE 0

\* C20: the source of every entry is the trimmed capture of the first of the
\* five patterns, in their priority order, that matches anywhere in the
\* segment, wherever the matches of the later patterns lie
C20_SourcePriorityOrder ==
    Returned =>
        \A k \in Derived :
            LET captures == PatternCaptures(passed[k])
            IN  \A i \in 1..Len(captures) :
                    (/\ captures[i] # <<>>
                     /\ \A j \in 1..(i - 1) : captures[j] = <<>>)
                    => entries[k].source = Trimmed(captures[i][1])

\* a segment whose first line ends with a parenthetical and whose second
\* line holds "from" got the capture of "from" as its source
C20_Witness ==
    /\ Returned
    /\ Len(entries) = 1
    /\ PatternCaptures(passed[1])[5] # <<>>
    /\ PatternCaptures(passed[1])[2] # <<>>
    /\ IndexOf(passed[1], <<"(">>) > 0
    /\ IndexOf(passed[1], <<"(">>) < IndexOf(passed[1], <<"f", "r", "o", "m">>)
    /\ entries[1].source = <<"t", "h", "e", " ", "o", "l", "d", " ", "t", "e", "x", "t">>

\* s without the characters of the set cs at its start
WithoutLeading(s, cs) ==
    IF \A i \in 1..Len(s) : s[i] \in cs THEN <<>>
    ELSE SubSeq(s, CHOOSE i \in 1..Len(s) :
                       s[i] \notin cs /\ \A j \in 1..(i - 1) : s[j] \in cs,
                   Len(s))

\* s without the characters of the set cs at its two ends
WithoutEnds(s, cs) ==
    IF \A i \in 1..Len(s) : s[i] \in cs THEN <<>>
    ELSE SubSeq(s, CHOOSE i \in 1..Len(s) :
                       s[i] \notin cs /\ \A j \in 1..(i - 1) : s[j] \in cs,
                   CHOOSE i \in 1..Len(s) :
                       s[i] \notin cs /\ \A j \in (i + 1)..Len(s) : s[j] \in cs)

\* the first line of the k-th segment without the title of the k-th entry
TitleLineRest(k) == str_replace(FirstLineOf(k), entries[k].title)

\* the content made of the remainder of the title line, when it is not
\* empty, and the lines after it
ContentWith(k, remainder) ==
    Trimmed(str_join((IF remainder # <<>> THEN <<remainder>> ELSE <<>>)
                         \o Tail(LinesOf(k)), <<" ">>))

\* C21 as stated: what remains of the title line loses only its leading
\* '-', ':' and whitespace characters; its end is kept
C21_StripsLeadingOnly ==
    Returned =>
        \A k \in Derived :
            entries[k].content =
                ContentWith(k, WithoutLeading(TitleLineRest(k), {" ", "-", ":", TAB, NL}))

\* C21 as amended: what remains of the title line loses the '-', ':' and
\* space characters at both of its ends, and is a content line exactly when
\* something is left
C21_StripsBothEnds ==
    Returned =>
        \A k \in Derived :
            entries[k].content =
                ContentWith(k, WithoutEnds(TitleLineRest(k), {" ", "-", ":"}))

\* the title was taken out of a first line that ends with a colon, and
\* the content has a second line after the remainder
C21_Witness ==
    /\ Returned
    /\ Len(entries) = 1
    /\ entries[1].title = <<"L", "o", "v", "e">>
    /\ FirstLineOf(1)[Len(FirstLineOf(1))] = ":"
    /\ Len(LinesOf(1)) = 2
    /\ entries[1].content # <<>>
    /\ WithoutEnds(TitleLineRest(1), {" ", "-", ":"})
           # WithoutLeading(TitleLineRest(1), {" ", "-", ":", TAB, NL})

\* the lines that the title-removal pass of extract_content keeps for the
\* k-th entry
KeptLines(k) == content_lines_from(LinesOf(k), entries[k].title, 1, FALSE)

\* C22: whenever the title-removal pass keeps no line, the content is the
\* trimmed space-joined concatenation of the lines of the segment after the
\* first
C22_ContentFallback ==
    Returned =>
        \A k \in Derived :
            KeptLines(k) = <<>> =>
                entries[k].content = Trimmed(str_join(Tail(LinesOf(k)), <<" ">>))

\* the pass kept no line of a segment that is one line of more than five
\* words, which is its own title
C22_Witness ==
    /\ Returned
    /\ Len(entries) = 1
    /\ KeptLines(1) = <<>>
    /\ Len(LinesOf(1)) = 1
    /\ Tokens(FirstLineOf(1)) > 5
    /\ entries[1].title = FirstLineOf(1)
    /\ entries[1].content = <<>>

\* C28: the source of every entry is a non-empty string, a captured
\* attribution or "Smart Import".  The code returns the empty string when the
\* capture of the first matching pattern is whitespace only.
C28_SourceNonEmpty ==
    Returned => \A k \in Derived : entries[k].source # <<>>

\* C29: the batch of every entry is "Smart Import " followed by the
\* dateAdded of that entry, and all entries of one call have the same
\* dateAdded, whatever the clock does during the call.  The code reads the
\* clock twice for every entry, so both parts fail when the date changes
\* between two readings.
C29_BatchIsDateAddedOfCall ==
    Returned =>
        /\ \A k \in Derived :
              entries[k].batch = <<"S", "m", "a", "r", "t", " ", "I", "m", "p", "o", "r", "t", " ">> \o entries[k].dateAdded
        /\ \A j, k \in Derived : entries[j].dateAdded = entries[k].dateAdded

\* C30: no segment that the splitter produced holds a split point, and the
\* splitter applied to the segment gives that one segment back.  The code
\* leaves a marker at the start of a segment when the marker follows another
\* marker on its line, or follows spaces that the trimming removed.
C30_SplitIdempotent ==
    phase \in {"running", "done"} =>
        \A i \in 1..Len(segments) :
            /\ NoDelimiter(segments[i])
            /\ split_segments(segments[i]) = <<segments[i]>>

\* the last call answered was an upload
UploadAnswered == handled > 0 /\ "filename" \in DOMAIN request

\* C23: no call of smart_create_entries changes the table entries or the
\* sequence of its ids, and a call answered with the suggested entries adds
\* exactly one row to analytics, whose entries_found is the number of the
\* suggested entries of the answer
C23_UploadOnlyProposes ==
    [][handled' = handled + 1 =>
          /\ entries_table' = entries_table
          /\ sequence' = sequence
          /\ response'.status = 200 =>
                /\ Len(analytics') = Len(analytics) + 1
                /\ SubSeq(analytics', 1, Len(analytics)) = analytics
                /\ analytics'[Len(analytics')].event_type = "smart_upload"
                /\ analytics'[Len(analytics')].entries_found
                       = Len(response'.suggested_entries)]_vars

\* an upload was answered with one suggested entry while the table held an
\* entry, and analytics has its one row
C23_Witness ==
    /\ UploadAnswered
    /\ response.status = 200
    /\ Len(response.suggested_entries) = 1
    /\ entries_table # {}
    /\ Len(analytics) = 1
    /\ analytics[1].entries_found = 1

\* the last call answered was the call op on the table, answered with status
Answered(op, status) ==
    /\ "op" \in DOMAIN request
    /\ request.op = op
    /\ response.status = status

\* no two rows of the table have the same id
DistinctIds == \A r, s \in entries_table : r.id = s.id => r = s

\* C24: at every time the stored entries have pairwise distinct ids, and the
\* id that create_entry returns was never returned by an earlier
\* create_entry, whether or not that entry is still stored
C24_IdsDistinctNeverReused ==
    /\ []DistinctIds
    /\ [][(served' = served + 1 /\ request'.op = "create_entry"
              /\ response'.status = 200)
          => /\ response'.entry.id \notin assigned
             /\ \A r \in entries_table : r.id # response'.entry.id]_vars

\* create_entry returned the id 3 after the entries 1 and 2 were created and
\* the entry 2 was deleted
C24_Witness ==
    /\ Answered("create_entry", 200)
    /\ response.entry.id = 3
    /\ assigned = {1, 2, 3}
    /\ {r.id : r \in entries_table} = {1, 3}

\* the table holds a row with the id
Stored(id) == \E r \in entries_table : r.id = id

\* C25: update_entry and delete_entry called, while the database can be
\* reached, with an id that no stored entry has are answered with status
\* 404 and the detail "Entry not found", and the table stays as it was
C25_MissingIdNotFound ==
    [][(/\ served' = served + 1
        /\ request'.op \in {"update_entry", "delete_entry"}
        /\ storage = "up"
        /\ ~Stored(request'.entry_id))
       => /\ response'.status = 404
          /\ response'.detail = <<"E", "n", "t", "r", "y", " ", "n", "o", "t", " ", "f", "o", "u", "n", "d">>
          /\ entries_table' = entries_table]_vars

\* delete_entry was answered 404 for the id of an entry that was created
\* and deleted before, while another entry is stored
C25_Witness ==
    /\ Answered("delete_entry", 404)
    /\ request.entry_id \in assigned
    /\ ~Stored(request.entry_id)
    /\ entries_table # {}

\* the rows of the table with another id than id
OtherRows(tbl, id) == {r \in tbl : r.id # id}

\* C26: an update_entry(id, e) answered with the entry leaves in the table,
\* under that id, one row with the user fields of e, and a delete_entry(id)
\* answered with success leaves no row under that id; both leave the rows
\* of every other id as they were, and the update leaves the number of rows
\* as it was
C26_UpdateDeleteFrame ==
    [][(served' = served + 1 /\ response'.status = 200
           /\ request'.op \in {"update_entry", "delete_entry"})
       => /\ Stored(request'.entry_id)
          /\ OtherRows(entries_table', request'.entry_id)
                 = OtherRows(entries_table, request'.entry_id)
          /\ request'.op = "update_entry" =>
                /\ Cardinality(entries_table') = Cardinality(entries_table)
                /\ \A r \in entries_table' :
                      r.id = request'.entry_id =>
                          /\ r.fields.title = request'.entry.title
                          /\ r.fields.type = request'.entry.type
                          /\ r.fields.content = request'.entry.content
                          /\ r.fields.dateAdded = request'.entry.dateAdded
                          /\ r.fields = [f \in DOMAIN r.fields |-> request'.entry[f]]
          /\ request'.op = "delete_entry" =>
                /\ \A r \in entries_table' : r.id # request'.entry_id
                /\ Cardinality(entries_table') = Cardinality(entries_table) - 1]_vars

\* the entry 2 of three stored entries was updated to the title beta, and
\* the entry 1 still has the title alpha
C26_Witness ==
    /\ Answered("update_entry", 200)
    /\ request.entry_id = 2
    /\ Cardinality(entries_table) = 3
    /\ \E r \in entries_table : r.id = 2 /\ r.fields.title = <<"b", "e", "t", "a">>
    /\ \E r \in entries_table : r.id = 1 /\ r.fields.title = <<"a", "l", "p", "h", "a">>

\* C27: every stored entry has a dateAdded that is neither null nor empty.
\* update_entry stores the dateAdded of the request as it is, so a request
\* with the empty string leaves an entry with an empty dateAdded.
C27_DateAddedNonEmpty ==
    \A r \in entries_table : r.fields.dateAdded # None /\ r.fields.dateAdded # <<>>
====
